---- MODULE Spec2Model ----
(***************************************************************************)
(* A model of the question-paper dashboard: the cascading academic         *)
(* selector, the difficulty distribution control and the generation        *)
(* orchestrator of GeneratePaper.tsx, and the paper detail normalizer of   *)
(* PaperPreview.tsx, the HTTP client and login of api.ts with the session  *)
(* of AuthContext.tsx, the roster page of Students.tsx, and the analytics  *)
(* page (Analytics.tsx and its variant with the radial chart).             *)
(* Every awaited backend call is split at the await:                       *)
(* the handler's synchronous part is one action, the delivery of the       *)
(* response (success or failure) is another.                               *)
(***************************************************************************)
EXTENDS Integers, Sequences, FiniteSets, TLC

VARIABLES
  years, semesters, subjects, units, topics,      \* option lists, GeneratePaper.tsx:22-26
  selectedYear, selectedSemester, selectedSubject,
  selectedUnit, selectedTopic,                    \* selections, GeneratePaper.tsx:28-32
  isLoading,                                      \* GeneratePaper.tsx:37
  fetches,                                        \* academic requests awaiting a response, in issue order
  notice,                                         \* description of the last toast shown
  difficulty,                                     \* GeneratePaper.tsx:34
  aiEngine,                                       \* GeneratePaper.tsx:33
  isGenerating, generatedPaperId,
  generationProgress,                             \* GeneratePaper.tsx:38-40
  progressInterval,                               \* the progress effect's interval is set, GeneratePaper.tsx:52-58
  genRequests,                                    \* payloads of generate requests awaiting a response
  genSent,                                        \* number of generate requests sent so far
  paper, previewLoading, expandedSections,        \* PaperPreview.tsx:99-101
  storedToken,                                    \* localStorage 'token', api.ts:16
  location,                                       \* window.location.href, api.ts:31
  navigating,                                     \* the document is being replaced after an assignment to location
  token, authIsLoading,                           \* AuthContext.tsx:16-17
  calls,                                          \* requests sent through the client, awaiting a response
  settled,                                        \* the settlement the response interceptor passes to the caller
  loginReturned,                                  \* the login call that returned last: the requests it sent, the answers it got, its result
  caught,                                         \* the last error a caller other than login caught
  students, stats, studentsIsLoading, isUploading,
  studentsError, selectedStudent, studentAnalytics,
  isAnalyticsLoading, showAnalyticsDialog,        \* Students.tsx:106-114
  studentCalls,                                   \* requests of the students page awaiting a response
  papers, selectedPaper, analytics,
  isLoadingPapers, isLoadingAnalytics,            \* unnamed/part_002:64-68
  analyticsCalls                                  \* requests of the analytics page awaiting a response

selVars  == <<years, semesters, subjects, units, topics, selectedYear,
              selectedSemester, selectedSubject, selectedUnit, selectedTopic,
              isLoading, fetches>>
genVars  == <<aiEngine, isGenerating, generatedPaperId, generationProgress,
              progressInterval, genRequests, genSent>>
prevVars == <<paper, previewLoading, expandedSections>>
sessVars == <<storedToken, location, navigating, token, authIsLoading, calls,
              settled, loginReturned, caught>>
stuVars  == <<students, stats, studentsIsLoading, isUploading, studentsError,
              selectedStudent, studentAnalytics, isAnalyticsLoading,
              showAnalyticsDialog, studentCalls>>
anaVars  == <<papers, selectedPaper, analytics, isLoadingPapers,
              isLoadingAnalytics, analyticsCalls>>
vars     == <<selVars, notice, difficulty, genVars, prevVars, sessVars, stuVars,
              anaVars>>

(***************************************************************************)
(* Bounds of the model.                                                    *)
(***************************************************************************)
MaxInFlight == 2   \* academic requests awaiting a response at one time
MaxGenerations == 2  \* generate requests sent in one run
MaxClientCalls == 2  \* requests through the client awaiting a response at one time
MaxStudentCalls == 2 \* requests of the students page awaiting a response at one time

(***************************************************************************)
(* JavaScript values.  A value that may be a number or a string carries    *)
(* its type; an optional property is <<>> when absent and <<v>> when       *)
(* present.                                                                *)
(***************************************************************************)
Num(n) == <<"number", n>>
Str(s) == <<"string", s>>
None   == <<>>
Some(v) == <<v>>

\* v || ... : a number is falsy when 0, a string when empty
Truthy(v) == IF v[1] = "number" THEN v[2] # 0 ELSE v[2] # ""

\* `${v}` : template interpolation of a number or a string
JsString(v) == IF v[1] = "number" THEN ToString(v[2]) ELSE v[2]

\* parseInt(s) for the decimal strings produced by id.toString(); the ids of
\* the catalogue below are 1..10
parseInt(s) == CHOOSE n \in 1..10 : ToString(n) = s

\* item[key], undefined when the item has no such property
Prop(item, key) == IF key \in DOMAIN item THEN Some(item[key]) ELSE None

\* nameKey.replace('_name', '').replace('_number', '')
StripNameKey(nameKey) ==
  CASE nameKey = "year_number"     -> "year"
    [] nameKey = "semester_number" -> "semester"
    [] nameKey = "subject_name"    -> "subject"
    [] nameKey = "unit_number"     -> "unit"
    [] nameKey = "topic_name"      -> "topic"

\* GeneratePaper.tsx:65-71.  data is [isArray, items]
normalizeOptions(data, idKey, nameKey) ==
  IF ~data.isArray THEN <<>>
  ELSE [i \in 1..Len(data.items) |->
          LET item == data.items[i]
              nm   == Prop(item, nameKey)
          IN [id   |-> item[idKey],
              name |-> IF nm # None /\ Truthy(nm[1]) THEN nm[1]
                       ELSE Str(StripNameKey(nameKey) \o " " \o ToString(item[idKey]))]]

\* .map(o => ({ ...o, name: `${prefix} ${o.name}` }))
withPrefix(prefix, options) ==
  [i \in 1..Len(options) |->
     [id |-> options[i].id, name |-> Str(prefix \o " " \o JsString(options[i].name))]]

\* the values of the <SelectItem>s rendered for an option list
itemValues(options) == {ToString(options[i].id) : i \in 1..Len(options)}

(***************************************************************************)
(* The backend's academic catalogue: two years, and under every parent p   *)
(* one child, p + 2, so that the options of the two years' descendants can *)
(* be told apart: 1 - 3 - 5 - 7 - 9 and 2 - 4 - 6 - 8 - 10.  A response    *)
(* carries the rows of the parent or something that is not an array.       *)
(***************************************************************************)
yearIds == <<1, 2>>

childIdsOf(parent) == <<parent + 2>>

\* the backend leaves the name property out of the rows with an even id
named(n) == n % 2 = 1

rowOf(level, n) ==
  CASE level = "years"     -> IF named(n) THEN [year_id |-> n, year_number |-> Num(n)]
                              ELSE [year_id |-> n]
    [] level = "semesters" -> IF named(n) THEN [semester_id |-> n, semester_number |-> Num(n)]
                              ELSE [semester_id |-> n]
    [] level = "subjects"  -> IF named(n) THEN [subject_id |-> n, subject_name |-> Str("Subject-" \o ToString(n))]
                              ELSE [subject_id |-> n]
    [] level = "units"     -> IF named(n) THEN [unit_id |-> n, unit_number |-> Num(n)]
                              ELSE [unit_id |-> n]
    [] level = "topics"    -> IF named(n) THEN [topic_id |-> n, topic_name |-> Str("Topic-" \o ToString(n))]
                              ELSE [topic_id |-> n]

rowsOf(level, arg) ==
  LET ids == IF level = "years" THEN yearIds ELSE childIdsOf(arg)
  IN [i \in 1..Len(ids) |-> rowOf(level, ids[i])]

responsesFor(level, arg) ==
  { [isArray |-> TRUE,  items |-> rowsOf(level, arg)],
    [isArray |-> FALSE, items |-> <<>>] }

request(level, arg) == [level |-> level, arg |-> arg]

removeAt(s, i) == SubSeq(s, 1, i - 1) \o SubSeq(s, i + 1, Len(s))

(***************************************************************************)
(* Initial values of the pages' and the session's state.                  *)
(***************************************************************************)
\* GeneratePaper.tsx:22-47: the state after the first render and its mount
\* effect, which has called loadYears() up to its await
InitSelector ==
  /\ years = <<>> /\ semesters = <<>> /\ subjects = <<>>
  /\ units = <<>> /\ topics = <<>>
  /\ selectedYear = "" /\ selectedSemester = "" /\ selectedSubject = ""
  /\ selectedUnit = "" /\ selectedTopic = ""
  /\ isLoading = TRUE
  /\ fetches = <<request("years", 0)>>

InitialDifficulty == [easy |-> 30, medium |-> 50, hard |-> 20]

InitGeneration ==
  /\ aiEngine = "openai"
  /\ isGenerating = FALSE
  /\ generatedPaperId = None
  /\ generationProgress = 0
  /\ progressInterval = FALSE
  /\ genRequests = <<>>
  /\ genSent = 0

InitPreview ==
  /\ paper = None
  /\ previewLoading = TRUE
  /\ expandedSections = {0}

\* AuthContext.tsx:16-26 after the mount effect, with localStorage holding stored
InitSessionOf(stored, loc) ==
  /\ storedToken = stored
  /\ location = loc
  /\ navigating = FALSE
  /\ token = stored
  /\ authIsLoading = FALSE
  /\ calls = <<>>
  /\ settled = None
  /\ loginReturned = None
  /\ caught = None

\* a signed-in user inside the application
InitSession == InitSessionOf(Some("t1"), "/")

\* a request of the students page: kind is "getAll", "uploadCsv" or
\* "getAnalytics"; origin is the caller of loadStudents; student and rows are
\* the argument of handleViewAnalytics and the students its closure holds
studentRequest(kind, origin, student, rows) ==
  [kind |-> kind, origin |-> origin, student |-> student, rows |-> rows]

\* Students.tsx:106-120: the state after the first render and its mount
\* effect, which has called loadStudents() up to its await
InitStudents ==
  /\ students = <<>>
  /\ stats = None
  /\ studentsIsLoading = TRUE
  /\ isUploading = FALSE
  /\ studentsError = None
  /\ selectedStudent = None
  /\ studentAnalytics = None
  /\ isAnalyticsLoading = FALSE
  /\ showAnalyticsDialog = FALSE
  /\ studentCalls = <<studentRequest("getAll", "mount", None, <<>>)>>

\* a request of the analytics page: kind is "getHistory" or
\* "getPaperAnalytics", paperId the argument of loadAnalytics
analyticsRequest(kind, paperId) == [kind |-> kind, paperId |-> paperId]

\* unnamed/part_002:63-79: the state after the first render and its mount
\* effects; param is searchParams.get('paper').  loadPapers() has run up to
\* its await, and so has loadAnalytics() when a paper is preselected
InitAnalyticsOf(param) ==
  /\ papers = <<>>
  /\ selectedPaper = (IF param = None THEN "" ELSE param[1])
  /\ analytics = None
  /\ isLoadingPapers = TRUE
  /\ isLoadingAnalytics = (param # None /\ param # Some(""))
  /\ analyticsCalls =
       <<analyticsRequest("getHistory", 0)>> \o
       (IF param # None /\ param # Some("")
        THEN <<analyticsRequest("getPaperAnalytics", parseInt(param[1]))>>
        ELSE <<>>)

\* the analytics page opened without a paper in its address
InitAnalytics == InitAnalyticsOf(None)

(***************************************************************************)
(* The cascading selector, GeneratePaper.tsx:73-147.                       *)
(***************************************************************************)
othersOfSelector == <<notice, difficulty, genVars, prevVars, sessVars, stuVars, anaVars>>

\* loadYears after its await: the try branch and finally
loadYearsResolved(i, data) ==
  /\ i \in 1..Len(fetches) /\ fetches[i].level = "years"
  /\ years' = withPrefix("Year", normalizeOptions(data, "year_id", "year_number"))
  /\ isLoading' = FALSE
  /\ fetches' = removeAt(fetches, i)
  /\ UNCHANGED <<semesters, subjects, units, topics, selectedYear, selectedSemester,
                 selectedSubject, selectedUnit, selectedTopic, othersOfSelector>>

\* loadYears after its await: the catch branch and finally
loadYearsRejected(i) ==
  /\ i \in 1..Len(fetches) /\ fetches[i].level = "years"
  /\ notice' = "Failed to load years"
  /\ isLoading' = FALSE
  /\ fetches' = removeAt(fetches, i)
  /\ UNCHANGED <<years, semesters, subjects, units, topics, selectedYear, selectedSemester,
                 selectedSubject, selectedUnit, selectedTopic, difficulty, genVars, prevVars, sessVars, stuVars, anaVars>>

\* handleYearChange without its setTopics([])
handleYearChangeKeepsTopics(yearId) ==
  /\ yearId \in itemValues(years)
  /\ Len(fetches) < MaxInFlight
  /\ selectedYear' = yearId
  /\ selectedSemester' = ""
  /\ selectedSubject' = ""
  /\ selectedUnit' = ""
  /\ selectedTopic' = ""
  /\ semesters' = <<>>
  /\ subjects' = <<>>
  /\ units' = <<>>
  /\ fetches' = Append(fetches, request("semesters", parseInt(yearId)))
  /\ UNCHANGED <<years, topics, isLoading, othersOfSelector>>

\* handleYearChange up to its await; the year <Select> offers the items of years
handleYearChange(yearId) ==
  /\ yearId \in itemValues(years)
  /\ Len(fetches) < MaxInFlight
  /\ selectedYear' = yearId
  /\ selectedSemester' = ""
  /\ selectedSubject' = ""
  /\ selectedUnit' = ""
  /\ selectedTopic' = ""
  /\ semesters' = <<>>
  /\ subjects' = <<>>
  /\ units' = <<>>
  /\ topics' = <<>>
  /\ fetches' = Append(fetches, request("semesters", parseInt(yearId)))
  /\ UNCHANGED <<years, isLoading, othersOfSelector>>

\* handleYearChange after its await, dropping the response of a fetch that a
\* later selection has superseded
handleYearChangeResolvedIfCurrent(i, data) ==
  /\ i \in 1..Len(fetches) /\ fetches[i].level = "semesters"
  /\ semesters' = IF ToString(fetches[i].arg) = selectedYear
                  THEN withPrefix("Semester", normalizeOptions(data, "semester_id", "semester_number"))
                  ELSE semesters
  /\ fetches' = removeAt(fetches, i)
  /\ UNCHANGED <<years, subjects, units, topics, selectedYear, selectedSemester,
                 selectedSubject, selectedUnit, selectedTopic, isLoading, othersOfSelector>>

\* handleYearChange after its await: the try branch
handleYearChangeResolved(i, data) ==
  /\ i \in 1..Len(fetches) /\ fetches[i].level = "semesters"
  /\ semesters' = withPrefix("Semester", normalizeOptions(data, "semester_id", "semester_number"))
  /\ fetches' = removeAt(fetches, i)
  /\ UNCHANGED <<years, subjects, units, topics, selectedYear, selectedSemester,
                 selectedSubject, selectedUnit, selectedTopic, isLoading, othersOfSelector>>

handleYearChangeRejected(i) ==
  /\ i \in 1..Len(fetches) /\ fetches[i].level = "semesters"
  /\ notice' = "Failed to load semesters"
  /\ fetches' = removeAt(fetches, i)
  /\ UNCHANGED <<years, semesters, subjects, units, topics, selectedYear, selectedSemester,
                 selectedSubject, selectedUnit, selectedTopic, isLoading,
                 difficulty, genVars, prevVars, sessVars, stuVars, anaVars>>

\* handleSemesterChange up to its await; the <Select> is disabled while no year is selected
handleSemesterChange(semesterId) ==
  /\ selectedYear # ""
  /\ semesterId \in itemValues(semesters)
  /\ Len(fetches) < MaxInFlight
  /\ selectedSemester' = semesterId
  /\ selectedSubject' = ""
  /\ selectedUnit' = ""
  /\ selectedTopic' = ""
  /\ subjects' = <<>>
  /\ units' = <<>>
  /\ topics' = <<>>
  /\ fetches' = Append(fetches, request("subjects", parseInt(semesterId)))
  /\ UNCHANGED <<years, semesters, selectedYear, isLoading, othersOfSelector>>

handleSemesterChangeResolved(i, data) ==
  /\ i \in 1..Len(fetches) /\ fetches[i].level = "subjects"
  /\ subjects' = normalizeOptions(data, "subject_id", "subject_name")
  /\ fetches' = removeAt(fetches, i)
  /\ UNCHANGED <<years, semesters, units, topics, selectedYear, selectedSemester,
                 selectedSubject, selectedUnit, selectedTopic, isLoading, othersOfSelector>>

handleSemesterChangeRejected(i) ==
  /\ i \in 1..Len(fetches) /\ fetches[i].level = "subjects"
  /\ notice' = "Failed to load subjects"
  /\ fetches' = removeAt(fetches, i)
  /\ UNCHANGED <<years, semesters, subjects, units, topics, selectedYear, selectedSemester,
                 selectedSubject, selectedUnit, selectedTopic, isLoading,
                 difficulty, genVars, prevVars, sessVars, stuVars, anaVars>>

\* handleSubjectChange up to its await; disabled while no semester is selected
handleSubjectChange(subjectId) ==
  /\ selectedSemester # ""
  /\ subjectId \in itemValues(subjects)
  /\ Len(fetches) < MaxInFlight
  /\ selectedSubject' = subjectId
  /\ selectedUnit' = ""
  /\ selectedTopic' = ""
  /\ units' = <<>>
  /\ topics' = <<>>
  /\ fetches' = Append(fetches, request("units", parseInt(subjectId)))
  /\ UNCHANGED <<years, semesters, subjects, selectedYear, selectedSemester,
                 isLoading, othersOfSelector>>

handleSubjectChangeResolved(i, data) ==
  /\ i \in 1..Len(fetches) /\ fetches[i].level = "units"
  /\ units' = withPrefix("Unit", normalizeOptions(data, "unit_id", "unit_number"))
  /\ fetches' = removeAt(fetches, i)
  /\ UNCHANGED <<years, semesters, subjects, topics, selectedYear, selectedSemester,
                 selectedSubject, selectedUnit, selectedTopic, isLoading, othersOfSelector>>

handleSubjectChangeRejected(i) ==
  /\ i \in 1..Len(fetches) /\ fetches[i].level = "units"
  /\ notice' = "Failed to load units"
  /\ fetches' = removeAt(fetches, i)
  /\ UNCHANGED <<years, semesters, subjects, units, topics, selectedYear, selectedSemester,
                 selectedSubject, selectedUnit, selectedTopic, isLoading,
                 difficulty, genVars, prevVars, sessVars, stuVars, anaVars>>

\* handleUnitChange up to its await; disabled while no subject is selected
handleUnitChange(unitId) ==
  /\ selectedSubject # ""
  /\ unitId \in itemValues(units)
  /\ Len(fetches) < MaxInFlight
  /\ selectedUnit' = unitId
  /\ selectedTopic' = ""
  /\ topics' = <<>>
  /\ fetches' = Append(fetches, request("topics", parseInt(unitId)))
  /\ UNCHANGED <<years, semesters, subjects, units, selectedYear, selectedSemester,
                 selectedSubject, isLoading, othersOfSelector>>

handleUnitChangeResolved(i, data) ==
  /\ i \in 1..Len(fetches) /\ fetches[i].level = "topics"
  /\ topics' = normalizeOptions(data, "topic_id", "topic_name")
  /\ fetches' = removeAt(fetches, i)
  /\ UNCHANGED <<years, semesters, subjects, units, selectedYear, selectedSemester,
                 selectedSubject, selectedUnit, selectedTopic, isLoading, othersOfSelector>>

handleUnitChangeRejected(i) ==
  /\ i \in 1..Len(fetches) /\ fetches[i].level = "topics"
  /\ notice' = "Failed to load topics"
  /\ fetches' = removeAt(fetches, i)
  /\ UNCHANGED <<years, semesters, subjects, units, topics, selectedYear, selectedSemester,
                 selectedSubject, selectedUnit, selectedTopic, isLoading,
                 difficulty, genVars, prevVars, sessVars, stuVars, anaVars>>

\* the topic <Select>: onValueChange={setSelectedTopic}, disabled while no unit is selected
setSelectedTopic(topicId) ==
  /\ selectedUnit # ""
  /\ topicId \in itemValues(topics)
  /\ selectedTopic' = topicId
  /\ UNCHANGED <<years, semesters, subjects, units, topics, selectedYear, selectedSemester,
                 selectedSubject, selectedUnit, isLoading, fetches, othersOfSelector>>

SelectorNext ==
  \/ \E i \in 1..Len(fetches) : \E data \in responsesFor(fetches[i].level, fetches[i].arg) : loadYearsResolved(i, data)
  \/ \E i \in 1..Len(fetches) : loadYearsRejected(i)
  \/ \E v \in itemValues(years) : handleYearChange(v)
  \/ \E i \in 1..Len(fetches) : \E data \in responsesFor(fetches[i].level, fetches[i].arg) : handleYearChangeResolved(i, data)
  \/ \E i \in 1..Len(fetches) : handleYearChangeRejected(i)
  \/ \E v \in itemValues(semesters) : handleSemesterChange(v)
  \/ \E i \in 1..Len(fetches) : \E data \in responsesFor(fetches[i].level, fetches[i].arg) : handleSemesterChangeResolved(i, data)
  \/ \E i \in 1..Len(fetches) : handleSemesterChangeRejected(i)
  \/ \E v \in itemValues(subjects) : handleSubjectChange(v)
  \/ \E i \in 1..Len(fetches) : \E data \in responsesFor(fetches[i].level, fetches[i].arg) : handleSubjectChangeResolved(i, data)
  \/ \E i \in 1..Len(fetches) : handleSubjectChangeRejected(i)
  \/ \E v \in itemValues(units) : handleUnitChange(v)
  \/ \E i \in 1..Len(fetches) : \E data \in responsesFor(fetches[i].level, fetches[i].arg) : handleUnitChangeResolved(i, data)
  \/ \E i \in 1..Len(fetches) : handleUnitChangeRejected(i)
  \/ \E v \in itemValues(topics) : setSelectedTopic(v)

SelInit ==
  /\ InitSelector /\ InitGeneration /\ InitPreview
  /\ InitSession /\ InitStudents /\ InitAnalytics
  /\ notice = ""
  /\ difficulty = InitialDifficulty

SelSpec == SelInit /\ [][SelectorNext]_vars

(***************************************************************************)
(* The difficulty distribution control, GeneratePaper.tsx:149-166.         *)
(*                                                                         *)
(* The handler computes ratio = remaining / otherTotal and then            *)
(* Math.round(old * ratio) in IEEE-754 double arithmetic.  old * ratio     *)
(* differs from the exact quotient old * remaining / otherTotal by far     *)
(* less than the distance between that quotient and the nearest half       *)
(* integer, except when the quotient is itself a half integer: there the   *)
(* double product is either the tie (rounded up by Math.round) or the      *)
(* double just below it (rounded down).  tieBelow lists the triples        *)
(* <<old, p, q>>, p/q being remaining/otherTotal in lowest terms, for      *)
(* which the double product falls below the tie, for all old in 0..101,    *)
(* remaining in 0..100 and otherTotal in 1..202.                           *)
(***************************************************************************)
SliderMax  == 100  \* <Slider max={100}>
SliderStep == 5    \* <Slider step={5}>

RECURSIVE gcd(_, _)
gcd(a, b) == IF b = 0 THEN a ELSE gcd(b, a % b)

tieBelow ==
  {
    <<7, 61, 14>>, <<11, 15, 22>>, <<11, 49, 22>>, <<13, 15, 26>>,
    <<13, 63, 26>>, <<14, 61, 28>>, <<15, 41, 10>>, <<19, 53, 38>>,
    <<19, 87, 38>>, <<21, 17, 14>>, <<21, 41, 14>>, <<21, 59, 42>>,
    <<21, 97, 42>>, <<22, 15, 44>>, <<22, 49, 44>>, <<23, 13, 46>>,
    <<23, 61, 46>>, <<23, 99, 46>>, <<25, 23, 10>>, <<25, 29, 50>>,
    <<25, 57, 50>>, <<26, 15, 52>>, <<26, 63, 52>>, <<27, 13, 6>>,
    <<27, 37, 18>>, <<27, 61, 54>>, <<28, 61, 56>>, <<29, 31, 58>>,
    <<29, 59, 58>>, <<30, 41, 20>>, <<35, 47, 70>>, <<37, 39, 74>>,
    <<37, 43, 74>>, <<38, 53, 76>>, <<38, 87, 76>>, <<39, 15, 26>>,
    <<39, 31, 78>>, <<39, 85, 78>>, <<39, 95, 78>>, <<41, 47, 82>>,
    <<41, 57, 82>>, <<41, 93, 82>>, <<42, 17, 28>>, <<42, 41, 28>>,
    <<42, 59, 84>>, <<42, 97, 84>>, <<43, 23, 86>>, <<43, 31, 86>>,
    <<43, 57, 86>>, <<44, 15, 88>>, <<44, 49, 88>>, <<45, 7, 10>>,
    <<45, 13, 90>>, <<45, 23, 18>>, <<45, 49, 90>>, <<46, 13, 92>>,
    <<46, 61, 92>>, <<46, 99, 92>>, <<47, 3, 94>>, <<47, 31, 94>>,
    <<47, 51, 94>>, <<47, 99, 94>>, <<49, 1, 98>>, <<49, 17, 14>>,
    <<49, 27, 98>>, <<49, 55, 98>>, <<49, 99, 98>>, <<50, 23, 20>>,
    <<50, 29, 100>>, <<50, 57, 100>>, <<51, 31, 102>>, <<51, 35, 34>>,
    <<51, 37, 34>>, <<51, 39, 34>>, <<52, 15, 104>>, <<52, 63, 104>>,
    <<54, 13, 12>>, <<54, 37, 36>>, <<54, 61, 108>>, <<55, 3, 22>>,
    <<55, 7, 110>>, <<55, 29, 110>>, <<55, 31, 110>>, <<56, 61, 112>>,
    <<58, 31, 116>>, <<58, 59, 116>>, <<59, 61, 118>>, <<60, 41, 40>>,
    <<67, 29, 134>>, <<69, 11, 138>>, <<69, 21, 46>>, <<70, 47, 140>>,
    <<71, 7, 142>>, <<71, 31, 142>>, <<74, 39, 148>>, <<74, 43, 148>>,
    <<75, 11, 30>>, <<75, 41, 50>>, <<75, 79, 150>>, <<75, 97, 150>>,
    <<76, 53, 152>>, <<76, 87, 152>>, <<77, 5, 154>>, <<77, 15, 22>>,
    <<77, 39, 154>>, <<78, 15, 52>>, <<78, 31, 156>>, <<78, 85, 156>>,
    <<78, 95, 156>>, <<79, 21, 158>>, <<79, 47, 158>>, <<82, 47, 164>>,
    <<82, 57, 164>>, <<82, 93, 164>>, <<83, 7, 166>>, <<83, 53, 166>>,
    <<84, 17, 56>>, <<84, 41, 56>>, <<84, 59, 168>>, <<84, 97, 168>>,
    <<85, 7, 10>>, <<85, 49, 170>>, <<85, 57, 170>>, <<86, 23, 172>>,
    <<86, 31, 172>>, <<86, 57, 172>>, <<87, 17, 58>>, <<87, 31, 58>>,
    <<87, 59, 174>>, <<88, 15, 176>>, <<88, 49, 176>>, <<89, 47, 178>>,
    <<89, 51, 178>>, <<89, 55, 178>>, <<89, 59, 178>>, <<89, 63, 178>>,
    <<90, 7, 20>>, <<90, 13, 180>>, <<90, 23, 36>>, <<90, 49, 180>>,
    <<91, 15, 26>>, <<91, 29, 182>>, <<91, 61, 182>>, <<91, 99, 182>>,
    <<92, 13, 184>>, <<92, 61, 184>>, <<92, 99, 184>>, <<93, 13, 186>>,
    <<93, 17, 62>>, <<93, 21, 62>>, <<94, 3, 188>>, <<94, 31, 188>>,
    <<94, 51, 188>>, <<94, 99, 188>>, <<95, 7, 190>>, <<95, 53, 190>>,
    <<95, 63, 190>>, <<95, 99, 190>>, <<97, 7, 194>>, <<97, 25, 194>>,
    <<97, 31, 194>>, <<97, 53, 194>>, <<97, 59, 194>>, <<98, 1, 196>>,
    <<98, 17, 28>>, <<98, 27, 196>>, <<98, 55, 196>>, <<98, 99, 196>>,
    <<99, 3, 22>>, <<99, 37, 66>>, <<99, 59, 198>>, <<100, 23, 40>>,
    <<100, 29, 200>>, <<100, 57, 200>>, <<101, 29, 202>>, <<101, 57, 202>>,
    <<101, 59, 202>>
  }

\* Math.round(old * ratio) with ratio = remaining / otherTotal, otherTotal > 0
roundScaled(old, remaining, otherTotal) ==
  LET g == gcd(remaining, otherTotal)
      exactHalfUp == (2 * old * remaining + otherTotal) \div (2 * otherTotal)
  IN IF remaining > 0 /\ <<old, remaining \div g, otherTotal \div g>> \in tieBelow
     THEN exactHalfUp - 1
     ELSE exactHalfUp

\* Math.round(old * 0.5): old * 0.5 is exact, a tie rounds up
roundHalved(old) == (old + 1) \div 2

Dimensions == {"easy", "medium", "hard"}

othersOf(type) ==
  IF type = "easy" THEN <<"medium", "hard">>
  ELSE IF type = "medium" THEN <<"easy", "hard">>
  ELSE <<"easy", "medium">>

otherTotalOf(type) == difficulty[othersOf(type)[1]] + difficulty[othersOf(type)[2]]

\* GeneratePaper.tsx:149-166
rebalanced(type, value) ==
  LET remaining  == 100 - value
      others     == othersOf(type)
      otherTotal == difficulty[others[1]] + difficulty[others[2]]
      scaled(old) == IF otherTotal > 0 THEN roundScaled(old, remaining, otherTotal)
                     ELSE roundHalved(old)
  IN [difficulty EXCEPT ![type] = value,
                        ![others[1]] = scaled(difficulty[others[1]]),
                        ![others[2]] = scaled(difficulty[others[2]])]

handleDifficultyChange(type, value) ==
  /\ difficulty' = rebalanced(type, value)
  /\ UNCHANGED <<selVars, notice, genVars, prevVars, sessVars, stuVars, anaVars>>

\* every value the handler's contract admits
DifficultyNext ==
  \E type \in Dimensions, value \in 0..SliderMax : handleDifficultyChange(type, value)

DiffInit ==
  /\ InitSelector /\ InitGeneration /\ InitPreview
  /\ InitSession /\ InitStudents /\ InitAnalytics
  /\ notice = ""
  /\ difficulty = InitialDifficulty

DiffSpec == DiffInit /\ [][DifficultyNext]_vars

\* the difficulty control moved through its sliders only: the positions of
\* <Slider max={100} step={5}>, GeneratePaper.tsx:455-498
SliderNext ==
  \E type \in Dimensions, value \in {v \in 0..SliderMax : v % SliderStep = 0} :
    handleDifficultyChange(type, value)

SliderSpec == DiffInit /\ [][SliderNext]_vars

sumOf(d) == d.easy + d.medium + d.hard

\* C3: after any setDifficulty(d, v), v in 0..100, from a state reachable from
\* 30/50/20, the three values sum to between 98 and 102.  (Every state of
\* DiffSpec but the first is the state after such a call.)
C3_SumWithinTwoOf100 == 98 <= sumOf(difficulty) /\ sumOf(difficulty) <= 102

\* C4: setDifficulty(d, v) called while the two other dimensions are both 0
\* gives each of them (100 - v) / 2, up to rounding.
C4_ZeroOthersSplitEvenly ==
  [][ \A type \in Dimensions, value \in 0..SliderMax :
        (otherTotalOf(type) = 0 /\ handleDifficultyChange(type, value)) =>
          \A k \in 1..2 :
            /\ 2 * difficulty'[othersOf(type)[k]] >= (100 - value) - 1
            /\ 2 * difficulty'[othersOf(type)[k]] <= (100 - value) + 1
    ]_vars

(***************************************************************************)
(* The generation orchestrator, GeneratePaper.tsx:50-62 and 168-218.       *)
(***************************************************************************)
\* Math.floor(x / 10) in place of Math.round(x / 10)
roundTenthTruncated(x) == x \div 10

\* Math.round(x / 10) for x >= 0: x / 10 is exact at the ties k + 0.5
roundTenth(x) == (x + 5) \div 10

\* topics.find(t => t.id.toString() === selectedTopic)?.name || ''
topicNameOf(options, id) ==
  LET hits == {i \in 1..Len(options) : ToString(options[i].id) = id}
  IN IF hits = {} THEN Str("")
     ELSE LET first == CHOOSE i \in hits : \A j \in hits : i <= j
          IN IF Truthy(options[first].name) THEN options[first].name ELSE Str("")

\* GeneratePaper.tsx:185-189: the payload's difficulty_distribution
difficultyTenths ==
  [Easy   |-> roundTenth(difficulty.easy),
   Medium |-> roundTenth(difficulty.medium),
   Hard   |-> roundTenth(difficulty.hard)]

\* GeneratePaper.tsx:181-199
payload ==
  [subject_id      |-> parseInt(selectedSubject),
   paper_model_id  |-> 1,
   ai_engine       |-> IF aiEngine = "openai" THEN "OPENAI" ELSE "RULE_ML_HYBRID",
   difficulty_distribution |-> difficultyTenths,
   unit_topic_map  |-> [unit |-> selectedUnit, topic |-> topicNameOf(topics, selectedTopic)],
   marks_map       |-> [Easy |-> 5, Medium |-> 10, Hard |-> 15],
   generated_by    |-> 1]

\* the effect of GeneratePaper.tsx:50-62 has not yet run for the current
\* value of isGenerating; React runs it before it handles anything else
effectPending == progressInterval # isGenerating

\* GeneratePaper.tsx:50-62: the effect body for the current isGenerating
progressEffect ==
  /\ effectPending
  /\ progressInterval' = isGenerating
  /\ generationProgress' = IF isGenerating THEN generationProgress ELSE 0
  /\ UNCHANGED <<selVars, notice, difficulty, aiEngine, isGenerating,
                 generatedPaperId, genRequests, genSent, prevVars, sessVars, stuVars, anaVars>>

\* GeneratePaper.tsx:52-57: one firing of the interval; inc stands for
\* Math.random() * 15
progressTick(inc) ==
  /\ progressInterval
  /\ ~effectPending
  /\ generationProgress' = IF generationProgress >= 90 THEN generationProgress
                           ELSE generationProgress + inc
  /\ UNCHANGED <<selVars, notice, difficulty, aiEngine, isGenerating,
                 generatedPaperId, progressInterval, genRequests, genSent, prevVars, sessVars, stuVars, anaVars>>

\* onClick={() => setAiEngine(...)}, GeneratePaper.tsx:392 and 419
setAiEngine(engine) ==
  /\ ~effectPending
  /\ aiEngine' = engine
  /\ UNCHANGED <<selVars, notice, difficulty, isGenerating, generatedPaperId,
                 generationProgress, progressInterval, genRequests, genSent, prevVars, sessVars, stuVars, anaVars>>

\* handleGenerate validating the subject only
handleGenerateChecksSubjectOnly ==
  /\ ~isGenerating
  /\ ~effectPending
  /\ IF selectedSubject = ""
     THEN /\ notice' = "Please select subject, unit, and topic"
          /\ UNCHANGED <<selVars, difficulty, genVars, prevVars, sessVars, stuVars, anaVars>>
     ELSE /\ genSent < MaxGenerations
          /\ isGenerating' = TRUE
          /\ generatedPaperId' = None
          /\ genRequests' = Append(genRequests, payload)
          /\ genSent' = genSent + 1
          /\ UNCHANGED <<selVars, notice, difficulty, aiEngine, generationProgress,
                         progressInterval, prevVars, sessVars, stuVars, anaVars>>

\* handleGenerate callable while a generation is outstanding
handleGenerateWhileGenerating ==
  /\ ~effectPending
  /\ IF selectedSubject = "" \/ selectedUnit = "" \/ selectedTopic = ""
     THEN /\ notice' = "Please select subject, unit, and topic"
          /\ UNCHANGED <<selVars, difficulty, genVars, prevVars, sessVars, stuVars, anaVars>>
     ELSE /\ genSent < MaxGenerations
          /\ isGenerating' = TRUE
          /\ generatedPaperId' = None
          /\ genRequests' = Append(genRequests, payload)
          /\ genSent' = genSent + 1
          /\ UNCHANGED <<selVars, notice, difficulty, aiEngine, generationProgress,
                         progressInterval, prevVars, sessVars, stuVars, anaVars>>

\* handleGenerate without setGeneratedPaperId(null)
handleGenerateKeepsPaperId ==
  /\ ~isGenerating
  /\ ~effectPending
  /\ IF selectedSubject = "" \/ selectedUnit = "" \/ selectedTopic = ""
     THEN /\ notice' = "Please select subject, unit, and topic"
          /\ UNCHANGED <<selVars, difficulty, genVars, prevVars, sessVars, stuVars, anaVars>>
     ELSE /\ genSent < MaxGenerations
          /\ isGenerating' = TRUE
          /\ genRequests' = Append(genRequests, payload)
          /\ genSent' = genSent + 1
          /\ UNCHANGED <<selVars, notice, difficulty, aiEngine, generatedPaperId,
                         generationProgress, progressInterval, prevVars, sessVars,
                         stuVars, anaVars>>

\* handleGenerate up to its await, GeneratePaper.tsx:168-201.  The button is
\* disabled while isGenerating; its disabled prop also repeats the handler's
\* own validation of the selection, which is modelled by the handler.
handleGenerate ==
  /\ ~isGenerating
  /\ ~effectPending
  /\ IF selectedSubject = "" \/ selectedUnit = "" \/ selectedTopic = ""
     THEN /\ notice' = "Please select subject, unit, and topic"
          /\ UNCHANGED <<selVars, difficulty, genVars, prevVars, sessVars, stuVars, anaVars>>
     ELSE /\ genSent < MaxGenerations
          /\ isGenerating' = TRUE
          /\ generatedPaperId' = None
          /\ genRequests' = Append(genRequests, payload)
          /\ genSent' = genSent + 1
          /\ UNCHANGED <<selVars, notice, difficulty, aiEngine, generationProgress,
                         progressInterval, prevVars, sessVars, stuVars, anaVars>>

\* response.id || response.paper_id
returnedIdPrefersId(body) ==
  LET id == Prop(body, "id")
  IN IF id # None /\ id[1] # 0 THEN id ELSE Prop(body, "paper_id")

\* response.paper_id || response.id
returnedId(body) ==
  LET pid == Prop(body, "paper_id")
  IN IF pid # None /\ pid[1] # 0 THEN pid ELSE Prop(body, "id")

\* the rest of try without setGenerationProgress(100)
handleGenerateResolvedKeepsProgress(body) ==
  /\ genRequests # <<>>
  /\ ~effectPending
  /\ generatedPaperId' = returnedId(body)
  /\ notice' = "Question paper generated successfully"
  /\ isGenerating' = FALSE
  /\ genRequests' = Tail(genRequests)
  /\ UNCHANGED <<selVars, difficulty, aiEngine, generationProgress, progressInterval,
                 genSent, prevVars, sessVars, stuVars, anaVars>>

\* handleGenerate after its await: the rest of try, then finally
handleGenerateResolved(body) ==
  /\ genRequests # <<>>
  /\ ~effectPending
  /\ generationProgress' = 100
  /\ generatedPaperId' = returnedId(body)
  /\ notice' = "Question paper generated successfully"
  /\ isGenerating' = FALSE
  /\ genRequests' = Tail(genRequests)
  /\ UNCHANGED <<selVars, difficulty, aiEngine, progressInterval, genSent, prevVars, sessVars, stuVars, anaVars>>

\* the catch block sending the request once more
handleGenerateRejectedRetries(detail) ==
  /\ genRequests # <<>>
  /\ ~effectPending
  /\ genSent < MaxGenerations
  /\ notice' = IF detail # None /\ detail[1] # "" THEN detail[1]
               ELSE "Failed to generate paper"
  /\ genRequests' = Append(Tail(genRequests), payload)
  /\ genSent' = genSent + 1
  /\ UNCHANGED <<selVars, difficulty, aiEngine, isGenerating, generatedPaperId,
                 generationProgress, progressInterval, prevVars, sessVars, stuVars, anaVars>>

\* handleGenerate after its await: catch, then finally.  detail is
\* error.response?.data?.detail
handleGenerateRejected(detail) ==
  /\ genRequests # <<>>
  /\ ~effectPending
  /\ notice' = IF detail # None /\ detail[1] # "" THEN detail[1]
               ELSE "Failed to generate paper"
  /\ isGenerating' = FALSE
  /\ genRequests' = Tail(genRequests)
  /\ UNCHANGED <<selVars, difficulty, aiEngine, generatedPaperId, generationProgress,
                 progressInterval, genSent, prevVars, sessVars, stuVars, anaVars>>

\* paperApi.downloadPdf, api.ts:109-112, with the default base /api
downloadPdf(paperId) == "/api/paper/download/" \o ToString(paperId)

\* GeneratePaper.tsx:606-658 and 220-224: where the buttons of the result
\* panel lead; the panel is rendered while generatedPaperId is truthy
resultPanel ==
  IF generatedPaperId # None /\ generatedPaperId[1] # 0
  THEN Some([view      |-> "/paper/" \o ToString(generatedPaperId[1]),
             download  |-> downloadPdf(generatedPaperId[1]),
             analytics |-> "/analytics?paper=" \o ToString(generatedPaperId[1])])
  ELSE None

\* what the backend may answer to POST /paper/generate
generateBodies == { [paper_id |-> 7], [id |-> 8], [paper_id |-> 9, id |-> 8] }
generateErrors == { None, Some("Quota exceeded") }

\* the selector once year 1, its semester, subject and unit have been chosen
\* and every response has arrived; no topic is chosen yet
loaded(level, arg, idKey, nameKey) ==
  normalizeOptions([isArray |-> TRUE, items |-> rowsOf(level, arg)], idKey, nameKey)

SelectorAtUnit ==
  /\ years     = withPrefix("Year", loaded("years", 0, "year_id", "year_number"))
  /\ semesters = withPrefix("Semester", loaded("semesters", 1, "semester_id", "semester_number"))
  /\ subjects  = loaded("subjects", 3, "subject_id", "subject_name")
  /\ units     = withPrefix("Unit", loaded("units", 5, "unit_id", "unit_number"))
  /\ topics    = loaded("topics", 7, "topic_id", "topic_name")
  /\ selectedYear = "1" /\ selectedSemester = "3" /\ selectedSubject = "5"
  /\ selectedUnit = "7" /\ selectedTopic = ""
  /\ isLoading = FALSE
  /\ fetches = <<>>

\* slider positions tried while a paper is being generated
GenSliderValues == {0, 35, 100}

GenNext ==
  \/ progressEffect
  \/ \E engine \in {"openai", "hybrid"} : setAiEngine(engine)
  \/ \E v \in itemValues(topics) : ~effectPending /\ setSelectedTopic(v)
  \/ \E type \in Dimensions, value \in GenSliderValues :
       ~effectPending /\ handleDifficultyChange(type, value)
  \/ handleGenerate
  \/ \E body \in generateBodies : handleGenerateResolved(body)
  \/ \E detail \in generateErrors : handleGenerateRejected(detail)

GenInit ==
  /\ SelectorAtUnit /\ InitGeneration /\ InitPreview
  /\ InitSession /\ InitStudents /\ InitAnalytics
  /\ notice = ""
  /\ difficulty = InitialDifficulty

GenSpec == GenInit /\ [][GenNext]_vars

\* the generation page with its interval firing while a paper is generated.
\* Math.random() * 15 lies in [0, 15); the progress is kept in whole units,
\* so an increment is one of the whole numbers 0..14 of that interval
ProgressNext ==
  \/ progressEffect
  \/ \E inc \in 0..14 : progressTick(inc)
  \/ \E v \in itemValues(topics) : ~effectPending /\ setSelectedTopic(v)
  \/ handleGenerate
  \/ \E body \in generateBodies : handleGenerateResolved(body)
  \/ \E detail \in generateErrors : handleGenerateRejected(detail)

ProgressSpec == GenInit /\ [][ProgressNext]_vars

\* React runs a pending effect after the render that scheduled it
ProgressLiveSpec == ProgressSpec /\ WF_vars(progressEffect)

(***************************************************************************)
(* The paper detail view, PaperPreview.tsx:97-184.                         *)
(*                                                                         *)
(* A paper is [sections, questions], each absent or an array.  A section   *)
(* is [questions, section_id, title, text, difficulty, bloom, marks],      *)
(* each absent or present.  A Question is a record of id, question_number, *)
(* text, difficulty, bloom, bloom_level and marks.                         *)
(***************************************************************************)
MaxSections  == 2   \* sections in a paper the backend returns
MaxQuestions == 2   \* questions in one array the backend returns

\* a || b for optional strings and numbers: a when present and truthy
strOr(a, b) == IF a # None /\ a[1] # "" THEN a[1] ELSE b
numOr(a, b) == IF a # None /\ a[1] # 0 THEN a[1] ELSE b

\* the nested questions of the first section only
questionsOfFirstSection(secs) ==
  IF secs = <<>> \/ Head(secs).questions = None THEN <<>> ELSE Head(secs).questions[1]

\* paper.sections.flatMap(s => s.questions || []), PaperPreview.tsx:164
RECURSIVE flatMapQuestions(_)
flatMapQuestions(secs) ==
  IF secs = <<>> THEN <<>>
  ELSE (IF Head(secs).questions # None THEN Head(secs).questions[1] ELSE <<>>)
       \o flatMapQuestions(Tail(secs))

\* the flat mapping with the numbering starting at 0
sectionsAsQuestionsFromZero(secs) ==
  [k \in 1..Len(secs) |->
     LET s == secs[k]
         i == k - 1
     IN [id              |-> numOr(s.section_id, i),
         question_number |-> i,
         text            |-> strOr(s.text, strOr(s.title, "")),
         difficulty      |-> strOr(s.difficulty, "medium"),
         bloom           |-> strOr(s.bloom, "understand"),
         bloom_level     |-> s.bloom,
         marks           |-> numOr(s.marks, 0)]]

\* paper.sections.map((s, i) => ({...})), PaperPreview.tsx:167-175
sectionsAsQuestions(secs) ==
  [k \in 1..Len(secs) |->
     LET s == secs[k]
         i == k - 1
     IN [id              |-> numOr(s.section_id, i),
         question_number |-> i + 1,
         text            |-> strOr(s.text, strOr(s.title, "")),
         difficulty      |-> strOr(s.difficulty, "medium"),
         bloom           |-> strOr(s.bloom, "understand"),
         bloom_level     |-> s.bloom,
         marks           |-> numOr(s.marks, 0)]]

\* getAllQuestions without its fallback to the top-level questions
getAllQuestionsSectionsOnly(p) ==
  IF p = None THEN <<>>
  ELSE IF p[1].sections # None /\ Len(p[1].sections[1]) > 0
       THEN IF p[1].sections[1][1].questions # None
            THEN flatMapQuestions(p[1].sections[1])
            ELSE sectionsAsQuestions(p[1].sections[1])
  ELSE <<>>

\* getAllQuestions trying the top-level questions before the sections
getAllQuestionsTopLevelFirst(p) ==
  IF p = None THEN <<>>
  ELSE IF p[1].questions # None THEN p[1].questions[1]
  ELSE IF p[1].sections # None /\ Len(p[1].sections[1]) > 0
       THEN IF p[1].sections[1][1].questions # None
            THEN flatMapQuestions(p[1].sections[1])
            ELSE sectionsAsQuestions(p[1].sections[1])
  ELSE <<>>

\* PaperPreview.tsx:157-184; p is the paper state, absent while none is loaded
getAllQuestions(p) ==
  IF p = None THEN <<>>
  ELSE IF p[1].sections # None /\ Len(p[1].sections[1]) > 0
       THEN IF p[1].sections[1][1].questions # None
            THEN flatMapQuestions(p[1].sections[1])
            ELSE sectionsAsQuestions(p[1].sections[1])
  ELSE IF p[1].questions # None THEN p[1].questions[1]
  ELSE <<>>

\* loadPaper after its await, PaperPreview.tsx:113-118 and 126
loadPaperResolved(data) ==
  /\ previewLoading
  /\ paper' = Some(data)
  /\ expandedSections' = IF data.sections # None
                         THEN {i - 1 : i \in 1..Len(data.sections[1])}
                         ELSE expandedSections
  /\ previewLoading' = FALSE
  /\ UNCHANGED <<selVars, notice, difficulty, genVars, sessVars, stuVars, anaVars>>

\* loadPaper after its await: catch and finally, PaperPreview.tsx:119-127
loadPaperRejected ==
  /\ previewLoading
  /\ notice' = "Failed to load paper"
  /\ previewLoading' = FALSE
  /\ UNCHANGED <<selVars, difficulty, genVars, paper, expandedSections, sessVars, stuVars, anaVars>>

(***************************************************************************)
(* The papers the backend may return.                                      *)
(***************************************************************************)
backendQuestion(n) ==
  [id |-> n, question_number |-> n, text |-> "Question " \o ToString(n),
   difficulty |-> "easy", bloom |-> "remember", bloom_level |-> None, marks |-> 2]

questionsFrom(b, n) == [i \in 1..n |-> backendQuestion(b + i - 1)]

QuestionArrays ==
  {questionsFrom(b, n) : b \in {1, MaxQuestions + 1}, n \in 0..MaxQuestions}

fullSection ==
  [questions |-> None, section_id |-> Some(7), title |-> Some("Section A"),
   text |-> Some("Define a stack"), difficulty |-> Some("hard"),
   bloom |-> Some("apply"), marks |-> Some(5)]

bareSection ==
  [questions |-> None, section_id |-> None, title |-> None, text |-> None,
   difficulty |-> None, bloom |-> None, marks |-> None]

flatFields == {"section_id", "title", "text", "difficulty", "bloom", "marks"}

\* sections that are themselves questions: every property present, none
\* present, exactly one absent, exactly one present, and falsy values
FlatSections ==
  {fullSection, bareSection}
  \cup {[fullSection EXCEPT ![f] = None] : f \in flatFields}
  \cup {[bareSection EXCEPT ![f] = fullSection[f]] : f \in flatFields}
  \cup {[fullSection EXCEPT !.text = Some("")],
        [fullSection EXCEPT !.marks = Some(0), !.section_id = Some(0)]}

\* sections that hold a nested questions array
NestedSections ==
  {[bareSection EXCEPT !.questions = Some(a), !.title = Some("Part")] : a \in QuestionArrays}

Sections == FlatSections \cup NestedSections

RECURSIVE seqsUpTo(_, _)
seqsUpTo(S, n) ==
  IF n = 0 THEN {<<>>}
  ELSE LET shorter == seqsUpTo(S, n - 1)
       IN shorter \cup {Append(q, x) : q \in {r \in shorter : Len(r) = n - 1}, x \in S}

Papers ==
  [sections  : {None} \cup {Some(q) : q \in seqsUpTo(Sections, MaxSections)},
   questions : {None} \cup {Some(a) : a \in QuestionArrays}]

PreviewNext ==
  \/ previewLoading /\ \E data \in Papers : loadPaperResolved(data)
  \/ loadPaperRejected

PreviewInit ==
  /\ InitSelector /\ InitGeneration /\ InitPreview
  /\ InitSession /\ InitStudents /\ InitAnalytics
  /\ notice = ""
  /\ difficulty = InitialDifficulty

PreviewSpec == PreviewInit /\ [][PreviewNext]_vars

(***************************************************************************)
(* The HTTP client and the session holder, api.ts:6-62 and                 *)
(* AuthContext.tsx:15-56.                                                  *)
(*                                                                         *)
(* A request is [kind, sent, seen, authorization]: kind is "login" for the *)
(* requests of authApi.login and "other" for a request of any other facade *)
(* function; sent lists the encodings of the requests its login call has   *)
(* sent so far, this one last, and seen the statuses that call has been    *)
(* answered with.  A response is [status, access_token, detail]; status is *)
(* absent when the request got no response at all.  The response           *)
(* interceptor settles the request's promise; the caller's continuation    *)
(* runs next, before any other event is handled.                           *)
(***************************************************************************)
Tokens == {"t1", "t2"}

\* api.ts:14-21: the Authorization header the request interceptor adds
authorizationOf(stored) ==
  IF stored # None /\ stored[1] # "" THEN Some("Bearer " \o stored[1]) ELSE None

clientRequest(kind, sent, seen) ==
  [kind |-> kind, sent |-> sent, seen |-> seen,
   authorization |-> authorizationOf(storedToken)]

\* api.ts:42, api.ts:53-55 and any other api.get / api.post
loginJsonRequest       == clientRequest("login", <<"json">>, <<>>)
loginFormRequest(seen) == clientRequest("login", <<"json", "form">>, seen)
otherRequest           == clientRequest("other", <<"json">>, <<>>)

\* what the backend may answer
okResponses(req) ==
  IF req.kind = "login"
  THEN {[status |-> Some(200), access_token |-> Some(t), detail |-> None] : t \in Tokens}
  ELSE {[status |-> Some(200), access_token |-> None, detail |-> None]}

errorResponses ==
  {[status |-> Some(n), access_token |-> None, detail |-> None] : n \in {401, 422, 500}}
  \cup {[status |-> Some(401), access_token |-> None,
          detail |-> Some("Incorrect username or password")]}
  \cup {[status |-> None, access_token |-> None, detail |-> None]}

isError(resp) == resp.status # Some(200)

\* the interceptor removing the token on a 422 as well
tokenAfterClientError(resp, stored) ==
  IF resp.status \in {Some(401), Some(422)} THEN None ELSE stored

\* api.ts:29-30: localStorage after the response interceptor's error handler
tokenAfterError(resp, stored) ==
  IF resp.status = Some(401) THEN None ELSE stored

\* api.ts:26-35: the response interceptor is handed the response to calls[i]
responseInterceptor(i, resp) ==
  /\ settled = None
  /\ i \in 1..Len(calls)
  /\ calls' = removeAt(calls, i)
  /\ IF isError(resp)
     THEN /\ storedToken' = tokenAfterError(resp, storedToken)
          /\ location'   = IF resp.status = Some(401) THEN "/login" ELSE location
          /\ navigating' = (navigating \/ resp.status = Some(401))
          /\ settled' = Some([to |-> calls[i], ok |-> FALSE, resp |-> resp])
     ELSE /\ settled' = Some([to |-> calls[i], ok |-> TRUE, resp |-> resp])
          /\ UNCHANGED <<storedToken, location, navigating>>
  /\ UNCHANGED <<token, authIsLoading, loginReturned, caught>>
  /\ UNCHANGED <<selVars, notice, difficulty, genVars, prevVars, stuVars, anaVars>>

\* the fallback taken after any response that reports an error
needsFormFallbackOnAnyStatus(resp) == resp.status # None

\* api.ts:48: error.response?.status === 422
needsFormFallback(resp) == resp.status = Some(422)

\* AuthContext.tsx:28-30 and api.ts:39-42: login up to the await of the JSON request
login ==
  /\ settled = None
  /\ Len(calls) < MaxClientCalls
  /\ calls' = Append(calls, loginJsonRequest)
  /\ UNCHANGED <<storedToken, location, navigating, token, authIsLoading, settled,
                 loginReturned, caught>>
  /\ UNCHANGED <<selVars, notice, difficulty, genVars, prevVars, stuVars, anaVars>>

\* api.ts:43-60 and AuthContext.tsx:31-45: login after either await
loginSettled ==
  /\ settled # None
  /\ settled[1].to.kind = "login"
  /\ LET req  == settled[1].to
         resp == settled[1].resp
         seen == Append(req.seen, resp.status)
     IN IF settled[1].ok
        THEN \* return response.data; then AuthContext.tsx:31-38
             /\ storedToken' = resp.access_token
             /\ token' = resp.access_token
             /\ notice' = "You have successfully logged in."
             /\ loginReturned' = Some([sent |-> req.sent, seen |-> seen, result |-> TRUE])
             /\ UNCHANGED calls
        ELSE IF Len(req.sent) = 1 /\ needsFormFallback(resp)
        THEN \* api.ts:49-55, up to the second await
             /\ calls' = Append(calls, loginFormRequest(seen))
             /\ UNCHANGED <<storedToken, token, notice, loginReturned>>
        ELSE \* throw err; then AuthContext.tsx:39-45
             /\ notice' = strOr(resp.detail, "Invalid credentials")
             /\ loginReturned' = Some([sent |-> req.sent, seen |-> seen, result |-> FALSE])
             /\ UNCHANGED <<storedToken, token, calls>>
  /\ settled' = None
  /\ UNCHANGED <<location, navigating, authIsLoading, caught>>
  /\ UNCHANGED <<selVars, difficulty, genVars, prevVars, stuVars, anaVars>>

\* a page calls a facade function other than login, up to its await
apiCall ==
  /\ settled = None
  /\ Len(calls) < MaxClientCalls
  /\ calls' = Append(calls, otherRequest)
  /\ UNCHANGED <<storedToken, location, navigating, token, authIsLoading, settled,
                 loginReturned, caught>>
  /\ UNCHANGED <<selVars, notice, difficulty, genVars, prevVars, stuVars, anaVars>>

\* the page's continuation: caught is the error its catch block was given
apiCallSettled ==
  /\ settled # None
  /\ settled[1].to.kind = "other"
  /\ caught' = IF settled[1].ok THEN None ELSE Some(settled[1].resp.status)
  /\ settled' = None
  /\ UNCHANGED <<storedToken, location, navigating, token, authIsLoading, calls,
                 loginReturned>>
  /\ UNCHANGED <<selVars, notice, difficulty, genVars, prevVars, stuVars, anaVars>>

\* logout without localStorage.removeItem('token')
logoutKeepsStoredToken ==
  /\ settled = None
  /\ token' = None
  /\ notice' = "You have been logged out successfully."
  /\ UNCHANGED <<storedToken, location, navigating, authIsLoading, calls, settled,
                 loginReturned, caught>>
  /\ UNCHANGED <<selVars, difficulty, genVars, prevVars, stuVars, anaVars>>

\* AuthContext.tsx:49-56
logout ==
  /\ settled = None
  /\ storedToken' = None
  /\ token' = None
  /\ notice' = "You have been logged out successfully."
  /\ UNCHANGED <<location, navigating, authIsLoading, calls, settled,
                 loginReturned, caught>>
  /\ UNCHANGED <<selVars, difficulty, genVars, prevVars, stuVars, anaVars>>

\* the document the interceptor navigated to has loaded: the requests of the
\* old document are gone and AuthProvider has mounted, AuthContext.tsx:16-26
pageLoad ==
  /\ navigating
  /\ settled = None
  /\ navigating' = FALSE
  /\ calls' = <<>>
  /\ token' = IF storedToken # None /\ storedToken[1] # "" THEN storedToken ELSE None
  /\ authIsLoading' = FALSE
  /\ caught' = None
  /\ loginReturned' = None
  /\ UNCHANGED <<storedToken, location, settled>>
  /\ UNCHANGED <<selVars, notice, difficulty, genVars, prevVars, stuVars, anaVars>>

AuthNext ==
  \/ \E i \in 1..Len(calls) : \E resp \in okResponses(calls[i]) \cup errorResponses :
       responseInterceptor(i, resp)
  \/ login
  \/ loginSettled
  \/ apiCall
  \/ apiCallSettled
  \/ logout
  \/ pageLoad

AuthInit ==
  /\ InitSelector /\ InitGeneration /\ InitPreview /\ InitStudents /\ InitAnalytics
  /\ notice = ""
  /\ difficulty = InitialDifficulty
  /\ \E stored \in {None, Some("t1")}, loc \in {"/", "/login"} : InitSessionOf(stored, loc)

AuthSpec == AuthInit /\ [][AuthNext]_vars

(***************************************************************************)
(* The students page, Students.tsx:105-247.                                *)
(*                                                                         *)
(* studentsApi is not among the sources; as the page uses it, getAll,      *)
(* uploadCsv and getAnalytics each send one request through the client     *)
(* and return the response's data.                                         *)
(*                                                                         *)
(* A number that the page computes by a division is Num(n) or NaN.         *)
(***************************************************************************)
NaN == <<"NaN">>

\* the result rows the backend holds: student 1 has rows 1 and 3, student 2
\* rows 2 and 4; row 2 comes without its difficulty_breakdown
backendRow(n) ==
  [result_id |-> n,
   student_id |-> 2 - (n % 2),
   paper_id |-> (n + 1) \div 2,
   marks_obtained |-> <<45, 29, 7, 1>>[n],
   max_marks |-> <<50, 200, 8, 3>>[n],
   difficulty_breakdown |->
     IF n = 2 THEN None ELSE Some([easy |-> 2 * n, medium |-> n, hard |-> n - 1]),
   created_at |-> "2024-01-0" \o ToString(n)]

BackendRows == {backendRow(n) : n \in 1..4}

\* s.difficulty_breakdown?.easy || 0
breakdownOr0(s, key) ==
  IF s.difficulty_breakdown = None THEN 0 ELSE s.difficulty_breakdown[1][key]

\* Students.tsx:130-140
transformed(data) ==
  [i \in 1..Len(data) |->
     [result_id |-> data[i].result_id,
      student_id |-> data[i].student_id,
      paper_id |-> data[i].paper_id,
      marks_obtained |-> data[i].marks_obtained,
      max_marks |-> data[i].max_marks,
      easy |-> breakdownOr0(data[i], "easy"),
      medium |-> breakdownOr0(data[i], "medium"),
      hard |-> breakdownOr0(data[i], "hard"),
      created_at |-> data[i].created_at]]

\* <<marks, max>> with max <= 200 for which the double (marks / max) * 100
\* falls just below the tie that the exact quotient is
percentBelowTie ==
  { <<23, 40>>, <<46, 80>>, <<69, 120>>, <<92, 160>>, <<29, 200>>, <<57, 200>>,
    <<113, 200>>, <<115, 200>> }

\* Math.round((marks / max) * 100), max > 0
roundPercent(marks, max) ==
  IF <<marks, max>> \in percentBelowTie
  THEN (200 * marks + max) \div (2 * max) - 1
  ELSE (200 * marks + max) \div (2 * max)

\* the exact sum of (marks / max) * 100 over the rows, as <<numerator, denominator>>
RECURSIVE percentSum(_)
percentSum(rows) ==
  IF rows = <<>> THEN <<0, 1>>
  ELSE LET rest == percentSum(Tail(rows))
           s    == Head(rows)
       IN <<rest[1] * s.max_marks + 100 * s.marks_obtained * rest[2],
            rest[2] * s.max_marks>>

\* Math.round(rows.reduce((acc, s) => acc + (s.marks_obtained / s.max_marks) * 100, 0) / rows.length):
\* 0 / 0 is NaN; the double mean is the exact mean rounded, a tie rounding
\* up, but for one row whose percentage is in percentBelowTie
roundedMean(rows) ==
  LET n == Len(rows)
      f == percentSum(rows)
  IN IF n = 0 THEN NaN
     ELSE IF n = 1 THEN Num(roundPercent(rows[1].marks_obtained, rows[1].max_marks))
     ELSE Num((2 * f[1] + f[2] * n) \div (2 * f[2] * n))

RECURSIVE sumOver(_, _)
sumOver(rows, key) ==
  IF rows = <<>> THEN 0 ELSE Head(rows)[key] + sumOver(Tail(rows), key)

\* the fallback computed from every loaded row, whoever the student
localAnalyticsOfAllRows(student, rows) ==
  [student_id |-> student.student_id,
   name |-> "Student " \o ToString(student.student_id),
   total_papers |-> Len(rows),
   average_score |-> roundedMean(rows),
   difficulty_breakdown |-> [easy |-> sumOver(rows, "easy"),
                             medium |-> sumOver(rows, "medium"),
                             hard |-> sumOver(rows, "hard")],
   performance_trend |->
     [i \in 1..Len(rows) |->
        [paper_id |-> rows[i].paper_id,
         score |-> roundPercent(rows[i].marks_obtained, rows[i].max_marks)]]]

\* Students.tsx:225-242: the analytics built from the rows the handler's
\* closure holds
localAnalytics(student, rows) ==
  LET studentRecords == SelectSeq(rows, LAMBDA s : s.student_id = student.student_id)
  IN [student_id |-> student.student_id,
      name |-> "Student " \o ToString(student.student_id),
      total_papers |-> Len(studentRecords),
      average_score |-> roundedMean(studentRecords),
      difficulty_breakdown |-> [easy |-> sumOver(studentRecords, "easy"),
                                medium |-> sumOver(studentRecords, "medium"),
                                hard |-> sumOver(studentRecords, "hard")],
      performance_trend |->
        [i \in 1..Len(studentRecords) |->
           [paper_id |-> studentRecords[i].paper_id,
            score |-> roundPercent(studentRecords[i].marks_obtained,
                                   studentRecords[i].max_marks)]]]

\* the rows of distinct students, the last row of each, in order of first appearance
RECURSIVE uniqueStudents(_)
uniqueStudents(rows) ==
  IF rows = <<>> THEN <<>>
  ELSE LET n    == Len(rows)
           last == rows[n]
           init == SubSeq(rows, 1, n - 1)
           u    == uniqueStudents(init)
       IN IF \E i \in 1..Len(u) : u[i].student_id = last.student_id
          THEN [i \in 1..Len(u) |-> IF u[i].student_id = last.student_id THEN last ELSE u[i]]
          ELSE Append(u, last)

\* a's percentage is greater than b's, both exact
scoresHigher(a, b) ==
  a.marks_obtained * b.max_marks > b.marks_obtained * a.max_marks

\* Students.tsx:163-167: data.reduce(..., data[0])
RECURSIVE topPerformer(_)
topPerformer(rows) ==
  IF Len(rows) = 1 THEN rows[1]
  ELSE LET top == topPerformer(SubSeq(rows, 1, Len(rows) - 1))
           s   == rows[Len(rows)]
       IN IF scoresHigher(s, top) THEN s ELSE top

\* Students.tsx:153-178: the value calculateStats sets
calculateStats(data) ==
  IF data = <<>> THEN None
  ELSE LET top == topPerformer(data)
       IN Some([total_students |-> Len(uniqueStudents(data)),
                active_students |-> Len(uniqueStudents(data)),
                avg_score |-> roundedMean(data),
                top_performer |->
                  [name |-> "Student " \o ToString(top.student_id),
                   score |-> roundPercent(top.marks_obtained, top.max_marks)]])

\* file names, as sequences of characters
csvSuffix == <<".", "c", "s", "v">>

\* name.includes('.csv')
includes(name, part) ==
  \E i \in 1..(Len(name) - Len(part) + 1) : SubSeq(name, i, i + Len(part) - 1) = part

\* name.endsWith('.csv')
endsWith(name, suffix) ==
  /\ Len(name) >= Len(suffix)
  /\ SubSeq(name, Len(name) - Len(suffix) + 1, Len(name)) = suffix

FileNames ==
  { <<"a", ".", "c", "s", "v">>, <<".", "c", "s", "v">>,
    <<"a", ".", "C", "S", "V">>, <<"a", ".", "t", "x", "t">>,
    <<"c", "s", "v">>, <<"a", ".", "c", "s", "v", ".", "b", "a", "k">>,
    <<"a", ".", "c", "s">> }

\* loadStudents up to its await, Students.tsx:122-126
loadStudentsStarts(origin, pending) ==
  /\ studentsIsLoading' = TRUE
  /\ studentsError' = None
  /\ studentCalls' = Append(pending, studentRequest("getAll", origin, None, <<>>))

\* loadStudents after its await: try and finally, Students.tsx:128-143 and
\* 148-150; called by handleFileUpload, that handler's finally follows,
\* Students.tsx:207-208
loadStudentsResolved(i, data) ==
  /\ i \in 1..Len(studentCalls)
  /\ studentCalls[i].kind = "getAll"
  /\ studentCalls' = removeAt(studentCalls, i)
  /\ IF data.isArray
     THEN /\ students' = transformed(data.items)
          /\ stats' = calculateStats(transformed(data.items))
     ELSE UNCHANGED <<students, stats>>
  /\ studentsIsLoading' = FALSE
  /\ isUploading' = IF studentCalls[i].origin = "upload" THEN FALSE ELSE isUploading
  /\ UNCHANGED <<studentsError, selectedStudent, studentAnalytics,
                 isAnalyticsLoading, showAnalyticsDialog>>
  /\ UNCHANGED <<selVars, notice, difficulty, genVars, prevVars, sessVars, anaVars>>

\* loadStudents after its await: catch and finally, Students.tsx:144-150
loadStudentsRejected(i) ==
  /\ i \in 1..Len(studentCalls)
  /\ studentCalls[i].kind = "getAll"
  /\ studentCalls' = removeAt(studentCalls, i)
  /\ studentsError' = Some("No students found. Upload a CSV to get started.")
  /\ students' = <<>>
  /\ stats' = None
  /\ studentsIsLoading' = FALSE
  /\ isUploading' = IF studentCalls[i].origin = "upload" THEN FALSE ELSE isUploading
  /\ UNCHANGED <<selectedStudent, studentAnalytics, isAnalyticsLoading,
                 showAnalyticsDialog>>
  /\ UNCHANGED <<selVars, notice, difficulty, genVars, prevVars, sessVars, anaVars>>

\* handleFileUpload accepting any name that contains .csv
handleFileUploadIfIncludesCsv(file) ==
  /\ ~isUploading
  /\ IF file = None
     THEN UNCHANGED <<notice, stuVars, anaVars>>
     ELSE IF ~includes(file[1], csvSuffix)
     THEN /\ notice' = "Please upload a CSV file"
          /\ UNCHANGED stuVars
     ELSE /\ Len(studentCalls) < MaxStudentCalls
          /\ isUploading' = TRUE
          /\ studentCalls' = Append(studentCalls, studentRequest("uploadCsv", "", None, <<>>))
          /\ UNCHANGED <<notice, students, stats, studentsIsLoading, studentsError,
                         selectedStudent, studentAnalytics, isAnalyticsLoading,
                         showAnalyticsDialog>>
  /\ UNCHANGED <<selVars, difficulty, genVars, prevVars, sessVars, anaVars>>

\* handleFileUpload up to its await, Students.tsx:180-195; file is
\* event.target.files?.[0].  The button that opens the file chooser is
\* disabled while isUploading, Students.tsx:291-293.
handleFileUpload(file) ==
  /\ ~isUploading
  /\ IF file = None
     THEN UNCHANGED <<notice, stuVars, anaVars>>
     ELSE IF ~endsWith(file[1], csvSuffix)
     THEN /\ notice' = "Please upload a CSV file"
          /\ UNCHANGED stuVars
     ELSE /\ Len(studentCalls) < MaxStudentCalls
          /\ isUploading' = TRUE
          /\ studentCalls' = Append(studentCalls, studentRequest("uploadCsv", "", None, <<>>))
          /\ UNCHANGED <<notice, students, stats, studentsIsLoading, studentsError,
                         selectedStudent, studentAnalytics, isAnalyticsLoading,
                         showAnalyticsDialog>>
  /\ UNCHANGED <<selVars, difficulty, genVars, prevVars, sessVars, anaVars>>

\* handleFileUpload finishing as soon as the upload has succeeded
uploadResolvedWithoutReload(i) ==
  /\ i \in 1..Len(studentCalls)
  /\ studentCalls[i].kind = "uploadCsv"
  /\ notice' = "Student data has been imported"
  /\ studentCalls' = removeAt(studentCalls, i)
  /\ isUploading' = FALSE
  /\ UNCHANGED <<students, stats, studentsIsLoading, studentsError, selectedStudent,
                 studentAnalytics, isAnalyticsLoading, showAnalyticsDialog>>
  /\ UNCHANGED <<selVars, difficulty, genVars, prevVars, sessVars, anaVars>>

\* handleFileUpload after the await of uploadCsv, up to the await inside
\* loadStudents, Students.tsx:196-200 and 122-126
uploadResolved(i) ==
  /\ i \in 1..Len(studentCalls)
  /\ studentCalls[i].kind = "uploadCsv"
  /\ notice' = "Student data has been imported"
  /\ loadStudentsStarts("upload", removeAt(studentCalls, i))
  /\ UNCHANGED <<students, stats, isUploading, selectedStudent, studentAnalytics,
                 isAnalyticsLoading, showAnalyticsDialog>>
  /\ UNCHANGED <<selVars, difficulty, genVars, prevVars, sessVars, anaVars>>

\* handleFileUpload after the await of uploadCsv: catch and finally,
\* Students.tsx:201-212; detail is err.response?.data?.detail
uploadRejected(i, detail) ==
  /\ i \in 1..Len(studentCalls)
  /\ studentCalls[i].kind = "uploadCsv"
  /\ notice' = strOr(detail, "Failed to upload CSV")
  /\ studentCalls' = removeAt(studentCalls, i)
  /\ isUploading' = FALSE
  /\ UNCHANGED <<students, stats, studentsIsLoading, studentsError, selectedStudent,
                 studentAnalytics, isAnalyticsLoading, showAnalyticsDialog>>
  /\ UNCHANGED <<selVars, difficulty, genVars, prevVars, sessVars, anaVars>>

\* handleViewAnalytics up to its await, Students.tsx:215-221; the table row
\* clicked is rendered from students once loading is over
handleViewAnalytics(k) ==
  /\ ~studentsIsLoading
  /\ k \in 1..Len(students)
  /\ Len(studentCalls) < MaxStudentCalls
  /\ selectedStudent' = Some(students[k])
  /\ showAnalyticsDialog' = TRUE
  /\ isAnalyticsLoading' = TRUE
  /\ studentCalls' = Append(studentCalls,
                            studentRequest("getAnalytics", "", Some(students[k]), students))
  /\ UNCHANGED <<students, stats, studentsIsLoading, isUploading, studentsError,
                 studentAnalytics>>
  /\ UNCHANGED <<selVars, notice, difficulty, genVars, prevVars, sessVars, anaVars>>

\* handleViewAnalytics after its await: try and finally, Students.tsx:222 and 244-246
viewAnalyticsResolved(i, data) ==
  /\ i \in 1..Len(studentCalls)
  /\ studentCalls[i].kind = "getAnalytics"
  /\ studentCalls' = removeAt(studentCalls, i)
  /\ studentAnalytics' = Some(data)
  /\ isAnalyticsLoading' = FALSE
  /\ UNCHANGED <<students, stats, studentsIsLoading, isUploading, studentsError,
                 selectedStudent, showAnalyticsDialog>>
  /\ UNCHANGED <<selVars, notice, difficulty, genVars, prevVars, sessVars, anaVars>>

\* handleViewAnalytics after its await: catch and finally, Students.tsx:223-246
viewAnalyticsRejected(i) ==
  /\ i \in 1..Len(studentCalls)
  /\ studentCalls[i].kind = "getAnalytics"
  /\ studentCalls' = removeAt(studentCalls, i)
  /\ studentAnalytics' =
       Some(localAnalytics(studentCalls[i].student[1], studentCalls[i].rows))
  /\ isAnalyticsLoading' = FALSE
  /\ UNCHANGED <<students, stats, studentsIsLoading, isUploading, studentsError,
                 selectedStudent, showAnalyticsDialog>>
  /\ UNCHANGED <<selVars, notice, difficulty, genVars, prevVars, sessVars, anaVars>>

\* <Dialog onOpenChange={setShowAnalyticsDialog}>, Students.tsx:486
setShowAnalyticsDialog(open) ==
  /\ showAnalyticsDialog # open
  /\ showAnalyticsDialog' = open
  /\ UNCHANGED <<students, stats, studentsIsLoading, isUploading, studentsError,
                 selectedStudent, studentAnalytics, isAnalyticsLoading, studentCalls>>
  /\ UNCHANGED <<selVars, notice, difficulty, genVars, prevVars, sessVars, anaVars>>

\* what the backend may answer to getAll: the rows it holds before or after
\* an import, or something that is not an array
Rosters ==
  { <<>>, <<backendRow(1)>>, <<backendRow(1), backendRow(2), backendRow(3)>> }

rosterResponses ==
  {[isArray |-> TRUE, items |-> r] : r \in Rosters}
  \cup {[isArray |-> FALSE, items |-> <<>>]}

\* what the backend may answer to getAnalytics
backendAnalytics(student) ==
  [student_id |-> student.student_id,
   name |-> "Student",
   total_papers |-> 9,
   average_score |-> Num(77),
   difficulty_breakdown |-> [easy |-> 30, medium |-> 40, hard |-> 20],
   performance_trend |-> <<[paper_id |-> 11, score |-> 77]>>]

uploadErrors == { None, Some("Malformed CSV") }

StudentsNext ==
  \/ \E i \in 1..Len(studentCalls) : \E data \in rosterResponses : loadStudentsResolved(i, data)
  \/ \E i \in 1..Len(studentCalls) : loadStudentsRejected(i)
  \/ \E file \in {None} \cup {Some(f) : f \in FileNames} : handleFileUpload(file)
  \/ \E i \in 1..Len(studentCalls) : uploadResolved(i)
  \/ \E i \in 1..Len(studentCalls) : \E detail \in uploadErrors : uploadRejected(i, detail)
  \/ \E k \in 1..Len(students) : handleViewAnalytics(k)
  \/ \E i \in 1..Len(studentCalls) :
       studentCalls[i].kind = "getAnalytics" /\
       viewAnalyticsResolved(i, backendAnalytics(studentCalls[i].student[1]))
  \/ \E i \in 1..Len(studentCalls) : viewAnalyticsRejected(i)
  \/ \E open \in BOOLEAN : setShowAnalyticsDialog(open)

StudentsInit ==
  /\ InitSelector /\ InitGeneration /\ InitPreview
  /\ InitSession /\ InitStudents /\ InitAnalytics
  /\ notice = ""
  /\ difficulty = InitialDifficulty

StudentsSpec == StudentsInit /\ [][StudentsNext]_vars

(***************************************************************************)
(* The fallback analytics as a computation, Students.tsx:223-246, applied  *)
(* to any student and any loaded rows.                                     *)
(***************************************************************************)
MaxRows == 3   \* rows loaded when the fallback is computed

StudentIds == {1, 2, 3}

\* the catch block and finally of handleViewAnalytics for a student of the
\* given id, with students the rows that are loaded
viewAnalyticsFallback(id) ==
  /\ studentAnalytics' = Some(localAnalytics([student_id |-> id], students))
  /\ isAnalyticsLoading' = FALSE
  /\ UNCHANGED <<students, stats, studentsIsLoading, isUploading, studentsError,
                 selectedStudent, showAnalyticsDialog, studentCalls>>
  /\ UNCHANGED <<selVars, notice, difficulty, genVars, prevVars, sessVars, anaVars>>

FallbackNext == \E id \in StudentIds : viewAnalyticsFallback(id)

FallbackInit ==
  /\ InitSelector /\ InitGeneration /\ InitPreview /\ InitSession /\ InitAnalytics
  /\ notice = ""
  /\ difficulty = InitialDifficulty
  /\ \E data \in seqsUpTo(BackendRows, MaxRows) :
       /\ students = transformed(data)
       /\ stats = calculateStats(transformed(data))
  /\ studentsIsLoading = FALSE
  /\ isUploading = FALSE
  /\ studentsError = None
  /\ selectedStudent = None
  /\ studentAnalytics = None
  /\ isAnalyticsLoading = TRUE
  /\ showAnalyticsDialog = TRUE
  /\ studentCalls = <<>>

FallbackSpec == FallbackInit /\ [][FallbackNext]_vars

(***************************************************************************)
(* The analytics page, unnamed/part_002:63-134.                            *)
(*                                                                         *)
(* A {category -> count} map is the sequence of its <<name, value>>        *)
(* entries in the order Object.entries lists them; undefined is None.      *)
(***************************************************************************)
MaxAnalyticsCalls == 2  \* getPaperAnalytics requests awaiting a response at one time
MaxEntries == 9         \* entries of a map the backend returns

\* unnamed/part_002:42-51
CHART_COLORS ==
  << "hsl(238, 84%, 67%)", "hsl(142, 76%, 36%)", "hsl(38, 92%, 50%)",
     "hsl(0, 84%, 60%)", "hsl(210, 90%, 55%)", "hsl(280, 70%, 60%)",
     "hsl(190, 90%, 50%)", "hsl(330, 80%, 60%)" >>

\* Math.max(...values) for a non-empty list of counts
RECURSIVE maxOf(_)
maxOf(values) ==
  IF Len(values) = 1 THEN values[1]
  ELSE LET rest == maxOf(Tail(values))
       IN IF Head(values) > rest THEN Head(values) ELSE rest

\* Math.round((value / maxValue) * 100) for 0 <= value <= maxValue: 0 / 0 is NaN
radialPercentage(value, maxValue) ==
  IF maxValue = 0 THEN NaN ELSE Num(roundPercent(value, maxValue))

\* unnamed/part_002:118-128; the array index of entry i is i - 1
formatRadialData(data) ==
  IF data = None THEN <<>>
  ELSE LET entries  == data[1]
           maxValue == maxOf([i \in 1..Len(entries) |-> entries[i][2]])
       IN [i \in 1..Len(entries) |->
             [name       |-> entries[i][1],
              value      |-> entries[i][2],
              fill       |-> CHART_COLORS[((i - 1) % Len(CHART_COLORS)) + 1],
              percentage |-> radialPercentage(entries[i][2], maxValue)]]

\* unnamed/part_002:134: formatRadialData(analytics?.bloom_taxonomy)
radialBloomData == formatRadialData(IF analytics = None THEN None ELSE analytics[1].bloom_taxonomy)

\* loadPapers after its await: try and finally, unnamed/part_002:81-95
loadPapersResolved(i, data) ==
  /\ i \in 1..Len(analyticsCalls) /\ analyticsCalls[i].kind = "getHistory"
  /\ papers' = IF data.isArray THEN data.items ELSE <<>>
  /\ isLoadingPapers' = FALSE
  /\ analyticsCalls' = removeAt(analyticsCalls, i)
  /\ UNCHANGED <<selectedPaper, analytics, isLoadingAnalytics>>
  /\ UNCHANGED <<selVars, notice, difficulty, genVars, prevVars, sessVars, stuVars>>

\* loadPapers after its await: catch and finally
loadPapersRejected(i) ==
  /\ i \in 1..Len(analyticsCalls) /\ analyticsCalls[i].kind = "getHistory"
  /\ notice' = "Failed to load papers"
  /\ isLoadingPapers' = FALSE
  /\ analyticsCalls' = removeAt(analyticsCalls, i)
  /\ UNCHANGED <<papers, selectedPaper, analytics, isLoadingAnalytics>>
  /\ UNCHANGED <<selVars, difficulty, genVars, prevVars, sessVars, stuVars>>

\* the getPaperAnalytics requests awaiting a response
analyticsInFlight ==
  Cardinality({i \in 1..Len(analyticsCalls) : analyticsCalls[i].kind = "getPaperAnalytics"})

\* onValueChange={setSelectedPaper} with one of the listed papers, then the
\* effect of unnamed/part_002:75-79, which runs when selectedPaper has
\* changed: loadAnalytics(parseInt(selectedPaper)) up to its await
setSelectedPaper(v) ==
  /\ ~isLoadingPapers
  /\ \E k \in 1..Len(papers) : ToString(papers[k].id) = v
  /\ v # selectedPaper
  /\ analyticsInFlight < MaxAnalyticsCalls
  /\ selectedPaper' = v
  /\ isLoadingAnalytics' = TRUE
  /\ analyticsCalls' = Append(analyticsCalls, analyticsRequest("getPaperAnalytics", parseInt(v)))
  /\ UNCHANGED <<papers, analytics, isLoadingPapers>>
  /\ UNCHANGED <<selVars, notice, difficulty, genVars, prevVars, sessVars, stuVars>>

\* loadAnalytics after its await: try and finally, unnamed/part_002:97-111
loadAnalyticsResolved(i, data) ==
  /\ i \in 1..Len(analyticsCalls) /\ analyticsCalls[i].kind = "getPaperAnalytics"
  /\ analytics' = Some(data)
  /\ isLoadingAnalytics' = FALSE
  /\ analyticsCalls' = removeAt(analyticsCalls, i)
  /\ UNCHANGED <<papers, selectedPaper, isLoadingPapers>>
  /\ UNCHANGED <<selVars, notice, difficulty, genVars, prevVars, sessVars, stuVars>>

\* loadAnalytics after its await: catch and finally
loadAnalyticsRejected(i) ==
  /\ i \in 1..Len(analyticsCalls) /\ analyticsCalls[i].kind = "getPaperAnalytics"
  /\ notice' = "Failed to load analytics"
  /\ analytics' = None
  /\ isLoadingAnalytics' = FALSE
  /\ analyticsCalls' = removeAt(analyticsCalls, i)
  /\ UNCHANGED <<papers, selectedPaper, isLoadingPapers>>
  /\ UNCHANGED <<selVars, difficulty, genVars, prevVars, sessVars, stuVars>>

\* what the backend may answer to GET /paper/history
historyResponses ==
  { [isArray |-> TRUE,  items |-> <<[id |-> 1], [id |-> 2], [id |-> 3]>>],
    [isArray |-> TRUE,  items |-> <<>>],
    [isArray |-> FALSE, items |-> <<>>] }

\* what the backend answers to GET /analytics/paper/{id}: the counts of
\* paper p, which differ from paper to paper
paperAnalytics(p) ==
  [difficulty_distribution |-> Some(<< <<"Easy", p>>, <<"Medium", 4>>, <<"Hard", 2>> >>),
   bloom_taxonomy          |-> Some(<< <<"Remember", 3>>, <<"Apply", p>> >>),
   topic_coverage          |-> None,
   marks_allocation        |-> Some(<< <<"5", 10 * p>> >>)]

AnalyticsNext ==
  \/ \E i \in 1..Len(analyticsCalls), data \in historyResponses : loadPapersResolved(i, data)
  \/ \E i \in 1..Len(analyticsCalls) : loadPapersRejected(i)
  \/ \E p \in {1, 2, 3} : setSelectedPaper(ToString(p))
  \/ \E i \in 1..Len(analyticsCalls) :
       loadAnalyticsResolved(i, paperAnalytics(analyticsCalls[i].paperId))
  \/ \E i \in 1..Len(analyticsCalls) : loadAnalyticsRejected(i)

AnalyticsInit ==
  /\ InitSelector /\ InitGeneration /\ InitPreview
  /\ InitSession /\ InitStudents
  /\ notice = ""
  /\ difficulty = InitialDifficulty
  /\ \E param \in {None, Some("1")} : InitAnalyticsOf(param)

AnalyticsSpec == AnalyticsInit /\ [][AnalyticsNext]_vars

(***************************************************************************)
(* formatRadialData over the maps a response may carry: the page is opened *)
(* for paper 1 and its analytics arrive.                                   *)
(***************************************************************************)
\* the maps of up to n entries, named by their position, each count one of
\* 0, 23 and 40; 23 of 40 is a percentage at a tie
radialMaps(n) ==
  UNION { { [i \in 1..k |-> <<"c" \o ToString(i), f[i]>>] : f \in [1..k -> {0, 23, 40}] } :
          k \in 0..n }

\* the analytics a response may carry
radialAnswers(n) ==
  { [difficulty_distribution |-> None, bloom_taxonomy |-> b,
     topic_coverage |-> None, marks_allocation |-> None] :
      b \in {None} \cup {Some(m) : m \in radialMaps(n)} }

RadialNext ==
  \E i \in {k \in 1..Len(analyticsCalls) : analyticsCalls[k].kind = "getPaperAnalytics"} :
    \E data \in radialAnswers(MaxEntries) : loadAnalyticsResolved(i, data)

RadialInit ==
  /\ InitSelector /\ InitGeneration /\ InitPreview
  /\ InitSession /\ InitStudents
  /\ notice = ""
  /\ difficulty = InitialDifficulty
  /\ InitAnalyticsOf(Some("1"))

RadialSpec == RadialInit /\ [][RadialNext]_vars

(***************************************************************************)
(* Properties of the cascading selector.                                   *)
(***************************************************************************)

\* C1: selecting a year, semester, subject or unit leaves every selection
\* below the selected level empty and every option list below it empty,
\* whatever the state before the selection.
C1_SelectingClearsDescendants ==
  [][ /\ (\E v \in itemValues(years) : handleYearChange(v)) =>
           /\ selectedSemester' = "" /\ selectedSubject' = ""
           /\ selectedUnit' = "" /\ selectedTopic' = ""
           /\ semesters' = <<>> /\ subjects' = <<>> /\ units' = <<>> /\ topics' = <<>>
      /\ (\E v \in itemValues(semesters) : handleSemesterChange(v)) =>
           /\ selectedSubject' = "" /\ selectedUnit' = "" /\ selectedTopic' = ""
           /\ subjects' = <<>> /\ units' = <<>> /\ topics' = <<>>
      /\ (\E v \in itemValues(subjects) : handleSubjectChange(v)) =>
           /\ selectedUnit' = "" /\ selectedTopic' = ""
           /\ units' = <<>> /\ topics' = <<>>
      /\ (\E v \in itemValues(units) : handleUnitChange(v)) =>
           /\ selectedTopic' = "" /\ topics' = <<>>
    ]_vars

\* a year was selected again after the chain had been filled down to a unit
\* (the unit's topics request is still in flight): everything below the year
\* is cleared
C1_Witness ==
  /\ Len(fetches) = 2
  /\ fetches[1].level = "topics" /\ fetches[2].level = "semesters"
  /\ selectedYear # "" /\ selectedSemester = "" /\ selectedSubject = ""
  /\ selectedUnit = "" /\ semesters = <<>> /\ subjects = <<>> /\ units = <<>>

\* C2: an option list is non-empty only if its governing ancestor is
\* currently selected, in every reachable state.
C2_ListNeedsAncestor ==
  /\ semesters # <<>> => selectedYear # ""
  /\ subjects # <<>> => selectedSemester # ""
  /\ units # <<>> => selectedSubject # ""
  /\ topics # <<>> => selectedUnit # ""

(***************************************************************************)
(* Properties of the difficulty control are stated with its model above.   *)
(* Properties of the generation orchestrator.                              *)
(***************************************************************************)
selectionIncomplete == selectedSubject = "" \/ selectedUnit = "" \/ selectedTopic = ""

nearestTenth(x, n) == 10 * n - 5 <= x /\ x < 10 * n + 5

\* C6: the payload a generate() sends carries, for each dimension, the
\* percentage divided by 10 and rounded to the nearest integer, halves
\* rounding up; 30/50/20 is sent as 3/5/2.
C6_PayloadCarriesTenths ==
  [][ genSent' # genSent =>
        LET sent == genRequests'[Len(genRequests')].difficulty_distribution
        IN /\ nearestTenth(difficulty.easy, sent.Easy)
           /\ nearestTenth(difficulty.medium, sent.Medium)
           /\ nearestTenth(difficulty.hard, sent.Hard)
           /\ difficulty = InitialDifficulty =>
                sent = [Easy |-> 3, Medium |-> 5, Hard |-> 2]
    ]_vars

\* a request has just been sent with easy at 35 percent, a tie: it carries 4
C6_Witness ==
  /\ genRequests # <<>>
  /\ difficulty.easy = 35
  /\ genRequests[1].difficulty_distribution.Easy = 4
  /\ genRequests[1].difficulty_distribution.Medium = roundTenth(difficulty.medium)

(***************************************************************************)
(* Properties of the paper detail normalizer.                              *)
(***************************************************************************)
sectionsOf(p)   == IF p # None /\ p[1].sections # None THEN p[1].sections[1] ELSE <<>>
hasSections(p)  == p # None /\ p[1].sections # None
nestedCount(s)  == IF s.questions = None THEN 0 ELSE Len(s.questions[1])

RECURSIVE nestedBefore(_, _)
\* the number of nested questions in the sections before the k-th
nestedBefore(secs, k) ==
  IF k <= 1 THEN 0 ELSE nestedBefore(secs, k - 1) + nestedCount(secs[k - 1])

\* C7: when sections is non-empty and its first section has a nested
\* questions array, the flat sequence is the concatenation of every section's
\* questions, in section order and then question order; a section without a
\* questions array contributes nothing.
C7_NestedSectionsAreConcatenated ==
  LET secs == sectionsOf(paper)
      flat == getAllQuestions(paper)
  IN (secs # <<>> /\ secs[1].questions # None) =>
       /\ Len(flat) = nestedBefore(secs, Len(secs) + 1)
       /\ \A k \in 1..Len(secs) : \A j \in 1..nestedCount(secs[k]) :
            flat[nestedBefore(secs, k) + j] = secs[k].questions[1][j]

\* a paper of two sections, each with two nested questions, is loaded
C7_Witness ==
  LET secs == sectionsOf(paper)
  IN /\ Len(secs) = 2
     /\ nestedCount(secs[1]) = 2 /\ nestedCount(secs[2]) = 2
     /\ secs[1] # secs[2]
     /\ Len(getAllQuestions(paper)) = 4

\* C8: when no section has nested questions, there is one Question per
\* section, in section order, numbered 1..n, with the section's text,
\* difficulty, bloom and marks, a missing difficulty read as "medium", a
\* missing bloom as "understand" and missing marks as 0.  (Missing is absent
\* or falsy, as || reads it.)
C8_SectionsBecomeQuestions ==
  LET secs == sectionsOf(paper)
      flat == getAllQuestions(paper)
  IN (secs # <<>> /\ \A k \in 1..Len(secs) : secs[k].questions = None) =>
       /\ Len(flat) = Len(secs)
       /\ \A k \in 1..Len(secs) :
            /\ flat[k].question_number = k
            /\ secs[k].text # None /\ secs[k].text[1] # "" => flat[k].text = secs[k].text[1]
            /\ flat[k].difficulty =
                 IF secs[k].difficulty # None /\ secs[k].difficulty[1] # ""
                 THEN secs[k].difficulty[1] ELSE "medium"
            /\ flat[k].bloom =
                 IF secs[k].bloom # None /\ secs[k].bloom[1] # ""
                 THEN secs[k].bloom[1] ELSE "understand"
            /\ flat[k].marks = IF secs[k].marks # None THEN secs[k].marks[1] ELSE 0

\* a paper of two sections without nested questions is loaded, the first
\* with every property and the second with none
C8_Witness ==
  LET secs == sectionsOf(paper)
  IN /\ Len(secs) = 2
     /\ secs[1] = fullSection /\ secs[2] = bareSection
     /\ getAllQuestions(paper)[2].difficulty = "medium"
     /\ getAllQuestions(paper)[1].text = "Define a stack"

\* C9: a paper with a top-level questions array and no sections yields that
\* array unchanged; a paper with neither, or no paper at all, yields the
\* empty sequence.
C9_TopLevelQuestionsReturned ==
  /\ paper = None => getAllQuestions(paper) = <<>>
  /\ (paper # None /\ paper[1].sections = None) =>
       getAllQuestions(paper) =
         IF paper[1].questions # None THEN paper[1].questions[1] ELSE <<>>

\* a paper with two top-level questions and no sections is loaded
C9_Witness ==
  /\ paper # None /\ paper[1].sections = None /\ paper[1].questions # None
  /\ Len(paper[1].questions[1]) = 2
  /\ getAllQuestions(paper)[1] # getAllQuestions(paper)[2]

\* the paper without its top-level questions array
withoutQuestions(p) == Some([p[1] EXCEPT !.questions = None])

\* C10 as claimed: whenever sections exists on the payload the result is
\* derived from sections, the top-level questions array playing no part.
C10_SectionsAlwaysTakePrecedence ==
  hasSections(paper) => getAllQuestions(paper) = getAllQuestions(withoutQuestions(paper))

\* C10 as amended: whenever sections exists and is not empty the result is
\* derived from sections (from the nested questions when the first section
\* has them, else one Question per section), the top-level questions array
\* playing no part; the top-level questions array is used when sections is
\* absent or empty, and the result is empty when there is none either.
C10_NonEmptySectionsTakePrecedence ==
  LET secs == sectionsOf(paper)
      flat == getAllQuestions(paper)
  IN /\ secs # <<>> =>
          /\ flat = getAllQuestions(withoutQuestions(paper))
          /\ Len(flat) = IF secs[1].questions # None
                         THEN nestedBefore(secs, Len(secs) + 1) ELSE Len(secs)
     /\ (paper # None /\ secs = <<>>) =>
          flat = IF paper[1].questions # None THEN paper[1].questions[1] ELSE <<>>
     /\ paper = None => flat = <<>>

\* a paper whose sections array exists but is empty, next to two top-level
\* questions, is loaded: the top-level questions are shown
C10_Witness ==
  /\ hasSections(paper) /\ sectionsOf(paper) = <<>>
  /\ paper[1].questions # None
  /\ Len(getAllQuestions(paper)) = 2

(***************************************************************************)
(* Properties of the HTTP client and of login.                             *)
(***************************************************************************)
\* C11: when the client is handed a 401 response to any request, of login or
\* not, the stored token is removed, the application navigates to /login and
\* the caller still gets the error; a response with any other status leaves
\* the stored token as it was.
C11_UnauthorizedClearsToken ==
  [][ /\ (settled = None /\ settled' # None) =>
           IF settled'[1].resp.status = Some(401)
           THEN /\ storedToken' = None
                /\ location' = "/login" /\ navigating'
                /\ ~settled'[1].ok
           ELSE storedToken' = storedToken
      /\ (settled # None /\ settled' = None /\ settled[1].resp.status = Some(401)) =>
           IF settled[1].to.kind = "login"
           THEN loginReturned' # None /\ ~loginReturned'[1].result
           ELSE caught' = Some(Some(401))
    ]_vars

\* a request other than login was answered 401 while a token was stored: the
\* token is gone from storage, the page is on its way to /login and the
\* caller has caught the error
C11_Witness ==
  /\ navigating /\ location = "/login"
  /\ storedToken = None /\ token = Some("t1")
  /\ caught = Some(Some(401))

\* the requests a login call has sent and the answers it has got so far
wellRetried(sent, seen) ==
  /\ sent \in {<<"json">>, <<"json", "form">>}
  /\ Len(seen) <= Len(sent)
  /\ (sent = <<"json", "form">>) => (seen # <<>> /\ seen[1] = Some(422))

\* C18: a login call sends a JSON request first, and a second, form-encoded
\* request exactly when the first was answered 422; it sends no third
\* request, and a failure of the second request, or a failure of the first
\* other than 422, reaches the caller.
C18_LoginRetriesOnceOn422 ==
  /\ \A i \in 1..Len(calls) :
       calls[i].kind = "login" =>
         /\ wellRetried(calls[i].sent, calls[i].seen)
         /\ Len(calls[i].seen) = Len(calls[i].sent) - 1
  /\ settled # None /\ settled[1].to.kind = "login" =>
       wellRetried(settled[1].to.sent, settled[1].to.seen)
  /\ loginReturned # None =>
       LET r == loginReturned[1]
       IN /\ wellRetried(r.sent, r.seen)
          /\ Len(r.seen) = Len(r.sent)
          /\ (r.seen[1] = Some(422)) => (r.sent = <<"json", "form">>)
          /\ r.result <=> (r.seen[Len(r.seen)] = Some(200))

\* a login was answered 422, retried form-encoded, and answered 401: the
\* caller was told the login failed
C18_Witness ==
  /\ loginReturned # None
  /\ loginReturned[1].sent = <<"json", "form">>
  /\ loginReturned[1].seen = <<Some(422), Some(401)>>
  /\ ~loginReturned[1].result

csvNames    == { <<"a", ".", "c", "s", "v">>, <<".", "c", "s", "v">> }
nonCsvNames == FileNames \ csvNames

\* C13: uploadCsv with a file whose name does not end in ".csv" sends no
\* request, starts no reload of the roster and leaves isUploading and the
\* roster as they were.
C13_NonCsvIsRejectedLocally ==
  [][ \A f \in nonCsvNames :
        handleFileUpload(Some(f)) =>
          /\ notice' = "Please upload a CSV file"
          /\ UNCHANGED <<studentCalls, isUploading, students, stats, studentsIsLoading>>
    ]_vars

\* a file a.csv.bak was chosen while three rows were loaded: the validation
\* notice is up, nothing is in flight and the rows are still there
C13_Witness ==
  /\ notice = "Please upload a CSV file"
  /\ studentCalls = <<>> /\ ~isUploading /\ ~studentsIsLoading
  /\ Len(students) = 3

\* the rows of the student of the given id, in row order
RECURSIVE recordsOf(_, _)
recordsOf(rows, id) ==
  IF rows = <<>> THEN <<>>
  ELSE IF Head(rows).student_id = id
       THEN <<Head(rows)>> \o recordsOf(Tail(rows), id)
       ELSE recordsOf(Tail(rows), id)

\* C19: viewAnalytics first asks the backend and shows its answer when there
\* is one; only when the call fails are the analytics computed from the
\* loaded rows of that student: total_papers is their number, the difficulty
\* breakdown their sums per dimension, and performance_trend one
\* {paper_id, score} per row, in row order.
C19_BackendFirstThenLocalRows ==
  [][ /\ \A k \in 1..Len(students) :
           handleViewAnalytics(k) =>
             /\ studentAnalytics' = studentAnalytics
             /\ studentCalls' = Append(studentCalls,
                  studentRequest("getAnalytics", "", Some(students[k]), students))
      /\ \A i \in 1..Len(studentCalls) :
           studentCalls[i].kind = "getAnalytics" =>
             LET id   == studentCalls[i].student[1].student_id
                 mine == recordsOf(studentCalls[i].rows, id)
                 a    == studentAnalytics'[1]
             IN /\ viewAnalyticsResolved(i, backendAnalytics(studentCalls[i].student[1]))
                     => studentAnalytics' = Some(backendAnalytics(studentCalls[i].student[1]))
                /\ viewAnalyticsRejected(i) =>
                     /\ a.total_papers =
                          Cardinality({j \in 1..Len(studentCalls[i].rows) :
                                         studentCalls[i].rows[j].student_id = id})
                     /\ a.difficulty_breakdown =
                          [easy |-> sumOver(mine, "easy"),
                           medium |-> sumOver(mine, "medium"),
                           hard |-> sumOver(mine, "hard")]
                     /\ Len(a.performance_trend) = Len(mine)
                     /\ \A j \in 1..Len(mine) :
                          /\ a.performance_trend[j].paper_id = mine[j].paper_id
                          /\ a.performance_trend[j].score =
                               roundPercent(mine[j].marks_obtained, mine[j].max_marks)
    ]_vars

\* the analytics call for student 1 failed while the rows of students 1, 2
\* and 1 were loaded: two papers, scores 90 and 88, in row order
C19_Witness ==
  /\ studentAnalytics # None /\ ~isAnalyticsLoading
  /\ studentAnalytics[1].student_id = 1
  /\ studentAnalytics[1].total_papers = 2
  /\ studentAnalytics[1].performance_trend =
       <<[paper_id |-> 1, score |-> 90], [paper_id |-> 2, score |-> 88]>>
  /\ Len(students) = 3

\* C20: a successful upload starts a new GET of the student rows while
\* isUploading stays true, and isUploading returns to false only when that
\* reload is over; a failed upload starts no reload and leaves the roster as
\* it was; isUploading is false once the upload is over either way.
C20_UploadReloadsBeforeIdle ==
  [][ /\ \A i \in 1..Len(studentCalls) :
           /\ uploadResolved(i) =>
                /\ isUploading'
                /\ studentCalls' = Append(removeAt(studentCalls, i),
                                          studentRequest("getAll", "upload", None, <<>>))
           /\ \A detail \in uploadErrors :
                uploadRejected(i, detail) =>
                  /\ ~isUploading'
                  /\ students' = students
                  /\ studentCalls' = removeAt(studentCalls, i)
           /\ (studentCalls[i].kind = "getAll" /\ studentCalls[i].origin = "upload"
               /\ studentCalls' = removeAt(studentCalls, i)) => ~isUploading'
      /\ (isUploading /\ ~isUploading') =>
           \E i \in 1..Len(studentCalls) :
             /\ studentCalls' = removeAt(studentCalls, i)
             /\ \/ studentCalls[i].kind = "getAll" /\ studentCalls[i].origin = "upload"
                \/ \E detail \in uploadErrors : uploadRejected(i, detail)
    ]_vars

\* an upload succeeded and the reload it started brought three rows: the
\* page is idle again
C20_Witness ==
  /\ notice = "Student data has been imported"
  /\ ~isUploading /\ ~studentsIsLoading /\ studentCalls = <<>>
  /\ Len(students) = 3

(***************************************************************************)
(* Properties of the selector's fetches.                                   *)
(***************************************************************************)
\* C14: when the fetch of the child options fails after a selection at level
\* k, the selection at level k and the selections above it stay as they are
\* and the child option list is left empty.
C14_FailedFetchLeavesChildEmpty ==
  [][ \A i \in 1..Len(fetches) :
        /\ handleYearChangeRejected(i) =>
             selectedYear' = selectedYear /\ semesters' = <<>>
        /\ handleSemesterChangeRejected(i) =>
             /\ selectedYear' = selectedYear /\ selectedSemester' = selectedSemester
             /\ subjects' = <<>>
        /\ handleSubjectChangeRejected(i) =>
             /\ selectedYear' = selectedYear /\ selectedSemester' = selectedSemester
             /\ selectedSubject' = selectedSubject
             /\ units' = <<>>
        /\ handleUnitChangeRejected(i) =>
             /\ selectedYear' = selectedYear /\ selectedSemester' = selectedSemester
             /\ selectedSubject' = selectedSubject /\ selectedUnit' = selectedUnit
             /\ topics' = <<>>
    ]_vars

\* the options are one per returned item, with the items' ids, and an item
\* that carries its number or name is named after it
optionsMatch(options, data, idKey, nameKey, prefix) ==
  /\ Len(options) = IF data.isArray THEN Len(data.items) ELSE 0
  /\ \A j \in 1..Len(options) :
       /\ options[j].id = data.items[j][idKey]
       /\ nameKey \in DOMAIN data.items[j] =>
            options[j].name = Str(prefix \o JsString(data.items[j][nameKey]))

\* C15: a selection at level k issues exactly one fetch, for the options of
\* the level right below, and when that fetch succeeds the child list holds
\* one normalized option per returned item while every deeper list is
\* empty; semester 3 of year 1, returned with semester_number 3, is offered
\* as "Semester 3".
C15_SelectionFetchesImmediateChild ==
  [][ /\ \A v \in itemValues(years) : handleYearChange(v) =>
           fetches' = Append(fetches, request("semesters", parseInt(v)))
      /\ \A v \in itemValues(semesters) : handleSemesterChange(v) =>
           fetches' = Append(fetches, request("subjects", parseInt(v)))
      /\ \A v \in itemValues(subjects) : handleSubjectChange(v) =>
           fetches' = Append(fetches, request("units", parseInt(v)))
      /\ \A v \in itemValues(units) : handleUnitChange(v) =>
           fetches' = Append(fetches, request("topics", parseInt(v)))
      /\ \A i \in 1..Len(fetches) :
           \A data \in responsesFor(fetches[i].level, fetches[i].arg) :
             /\ handleYearChangeResolved(i, data) =>
                  /\ optionsMatch(semesters', data, "semester_id", "semester_number", "Semester ")
                  /\ subjects' = <<>> /\ units' = <<>> /\ topics' = <<>>
             /\ handleSemesterChangeResolved(i, data) =>
                  /\ optionsMatch(subjects', data, "subject_id", "subject_name", "")
                  /\ units' = <<>> /\ topics' = <<>>
             /\ handleSubjectChangeResolved(i, data) =>
                  /\ optionsMatch(units', data, "unit_id", "unit_number", "Unit ")
                  /\ topics' = <<>>
             /\ handleUnitChangeResolved(i, data) =>
                  optionsMatch(topics', data, "topic_id", "topic_name", "")
    ]_vars

(***************************************************************************)
(* Properties of the outcome of a generation.                              *)
(***************************************************************************)
\* C16: when a generation request succeeds, the stored paper identifier is
\* the one the backend returned, paper_id if there is one and id otherwise,
\* and the detail, PDF and analytics targets of the result panel are those
\* of that identifier.
C16_SuccessStoresReturnedId ==
  [][ \A body \in generateBodies :
        handleGenerateResolved(body) =>
          LET id == IF "paper_id" \in DOMAIN body THEN body.paper_id ELSE body.id
          IN /\ generatedPaperId' = Some(id)
             /\ resultPanel' = Some([view      |-> "/paper/" \o ToString(id),
                                     download  |-> "/api/paper/download/" \o ToString(id),
                                     analytics |-> "/analytics?paper=" \o ToString(id)])
    ]_vars

\* a generation was answered {paper_id: 9, id: 8}: paper 9 is stored and
\* offered
C16_Witness ==
  /\ generatedPaperId = Some(9) /\ ~isGenerating /\ genRequests = <<>>
  /\ resultPanel # None /\ resultPanel[1].view = "/paper/9"

\* C17: a generate() call sends exactly one request; when that request fails
\* nothing is sent again until generate() is invoked again, and the notice is
\* the backend's detail message when there is one, else "Failed to generate
\* paper".
C17_FailureIsNotRetried ==
  [][ /\ (handleGenerate /\ ~selectionIncomplete) =>
           genSent' = genSent + 1 /\ Len(genRequests') = 1
      /\ \A detail \in generateErrors :
           handleGenerateRejected(detail) =>
             /\ genSent' = genSent /\ genRequests' = <<>>
             /\ ~isGenerating'
             /\ notice' = IF detail = None THEN "Failed to generate paper" ELSE detail[1]
      /\ genSent' # genSent => (handleGenerate /\ ~isGenerating /\ isGenerating')
    ]_vars

\* the only generation asked for was refused with "Quota exceeded": one
\* request was sent, none is in flight and the message is shown
C17_Witness ==
  /\ notice = "Quota exceeded"
  /\ genSent = 1 /\ genRequests = <<>> /\ ~isGenerating

(***************************************************************************)
(* Properties of the progress value.                                       *)
(***************************************************************************)
\* C21: while a generation request is outstanding (isGenerating is true and
\* its response has not been delivered), generationProgress is less than 100,
\* whatever the timer ticks and their increments were.
C21_ProgressBelowCompletion ==
  (isGenerating /\ genRequests # <<>>) => generationProgress < 100

\* C22: a successful response sets generationProgress to 100; a failed
\* response does not change it; and once isGenerating is false again the
\* progress effect resets generationProgress to 0.
C22_ProgressSnapsThenResets ==
  /\ [][ /\ \A body \in generateBodies :
              handleGenerateResolved(body) => generationProgress' = 100
         /\ \A detail \in generateErrors :
              handleGenerateRejected(detail) => generationProgress' = generationProgress
         /\ (progressEffect /\ ~isGenerating) => generationProgress' = 0
       ]_vars
  /\ [](~isGenerating /\ ~effectPending => generationProgress = 0)
  /\ (~isGenerating ~> generationProgress = 0)

\* the response of a generation has just arrived with a paper: the progress
\* is 100, and the effect that resets it has not run yet
C22_Witness ==
  /\ ~isGenerating /\ effectPending
  /\ generatedPaperId # None
  /\ generationProgress = 100

(***************************************************************************)
(* Properties of the analytics page.                                       *)
(***************************************************************************)
\* round(n / d) for n >= 0 and d > 0, a tie rounding up
roundedQuotient(n, d) == (2 * n + d) \div (2 * d)

\* C23: formatRadialData(map) has one entry per key of the map, in the map's
\* order; entry i carries the key, its value, the colour at position i modulo
\* 8 of the palette and percentage = round(100 * value / maximum of the map);
\* with a positive maximum every percentage is in 0..100 and the maximal
\* entry has 100; an undefined map gives the empty sequence.
C23_RadialEntries ==
  LET data == IF analytics = None THEN None ELSE analytics[1].bloom_taxonomy
      out  == radialBloomData
  IN IF data = None THEN out = <<>>
     ELSE LET map == data[1]
              n   == Len(map)
              max == IF n = 0 THEN 0 ELSE maxOf([i \in 1..n |-> map[i][2]])
          IN /\ Len(out) = n
             /\ \A i \in 1..n :
                  /\ out[i].name = map[i][1]
                  /\ out[i].value = map[i][2]
                  /\ out[i].fill = CHART_COLORS[((i - 1) % 8) + 1]
                  /\ max > 0 =>
                       /\ out[i].percentage = Num(roundedQuotient(100 * map[i][2], max))
                       /\ out[i].percentage[2] \in 0..100
                       /\ map[i][2] = max => out[i].percentage = Num(100)

\* the backend's answer for the paper that is selected
fetchedForSelected == Some(paperAnalytics(parseInt(selectedPaper)))

\* C26: on the analytics page, whenever isLoadingAnalytics is false and
\* analytics are held, they are the response fetched for the selected paper;
\* and isLoadingAnalytics is true whenever an analytics request is in flight.
C26_AnalyticsOfSelectedPaper ==
  /\ (~isLoadingAnalytics /\ analytics # None) =>
       (selectedPaper # "" /\ analytics = fetchedForSelected)
  /\ analyticsInFlight > 0 => isLoadingAnalytics

(***************************************************************************)
(* Properties of the difficulty distribution.                              *)
(***************************************************************************)
\* C24: setDifficulty(d, v) with the two other dimensions summing to
\* otherTotal > 0 sets d to v and each other dimension to
\* round(old * (100 - v) / otherTotal); so every value is an integer of
\* 0..100 and the order of the two other dimensions is kept.
C24_OthersScaledProportionally ==
  [][ \A type \in Dimensions, value \in 0..SliderMax :
        (otherTotalOf(type) > 0 /\ handleDifficultyChange(type, value)) =>
          LET a == othersOf(type)[1]
              b == othersOf(type)[2]
          IN /\ difficulty'[type] = value
             /\ \A o \in {a, b} :
                  difficulty'[o] =
                    roundedQuotient(difficulty[o] * (100 - value), otherTotalOf(type))
             /\ \A t \in Dimensions : difficulty'[t] \in 0..100
             /\ difficulty[a] <= difficulty[b] => difficulty'[a] <= difficulty'[b]
             /\ difficulty[b] <= difficulty[a] => difficulty'[b] <= difficulty'[a]
    ]_vars

\* the tenths handleGenerate would send for the current distribution
tenthsSent == difficultyTenths.Easy + difficultyTenths.Medium + difficultyTenths.Hard

\* C30: for every distribution reachable from 30/50/20 by moving the sliders
\* (values 0..100 in steps of 5), the tenths sent in the generation payload
\* satisfy 9 <= Easy + Medium + Hard <= 11.
C30_TenthsSumNearTen == 9 <= tenthsSent /\ tenthsSent <= 11

(***************************************************************************)
(* Properties of overlapping selector fetches.                             *)
(***************************************************************************)
\* a selection adds its fetch and leaves the fetches in flight as they are
fetchAdded == Len(fetches') = Len(fetches) + 1 /\ SubSeq(fetches', 1, Len(fetches)) = fetches

\* C25: selector fetches in flight are neither de-duplicated nor cancelled,
\* and the response delivered last wins: a selection leaves the earlier
\* fetches in flight, and the response of any fetch, superseded or not, puts
\* its options into the child list whatever parent is selected by then.
C25_LastResponseWins ==
  [][ /\ (\E v \in itemValues(years) : handleYearChange(v)) => fetchAdded
      /\ (\E v \in itemValues(semesters) : handleSemesterChange(v)) => fetchAdded
      /\ (\E v \in itemValues(subjects) : handleSubjectChange(v)) => fetchAdded
      /\ (\E v \in itemValues(units) : handleUnitChange(v)) => fetchAdded
      /\ \A i \in 1..Len(fetches) :
           \A data \in responsesFor(fetches[i].level, fetches[i].arg) :
             /\ handleYearChangeResolved(i, data) =>
                  optionsMatch(semesters', data, "semester_id", "semester_number", "Semester ")
             /\ handleSemesterChangeResolved(i, data) =>
                  optionsMatch(subjects', data, "subject_id", "subject_name", "")
             /\ handleSubjectChangeResolved(i, data) =>
                  optionsMatch(units', data, "unit_id", "unit_number", "Unit ")
             /\ handleUnitChangeResolved(i, data) =>
                  optionsMatch(topics', data, "topic_id", "topic_name", "")
    ]_vars

\* year 1 was selected, then year 2 before the semesters of year 1 had
\* arrived, and the response for year 1 came last: year 2 is selected, no
\* fetch is in flight and the list offers semester 3, which is year 1's
C25_Witness ==
  /\ selectedYear = "2" /\ fetches = <<>>
  /\ Len(semesters) = 1 /\ semesters[1].id = 3
  /\ rowsOf("semesters", 2)[1].semester_id = 4

(***************************************************************************)
(* Properties of the generation flag and of the stored paper id.           *)
(***************************************************************************)
\* C27: isGenerating is true exactly while a generation request is
\* outstanding, it is false again after the response, success or failure,
\* and at most one generation request is outstanding at any time.
C27_OneGenerationAtATime ==
  /\ [](isGenerating <=> genRequests # <<>>)
  /\ [](Len(genRequests) <= 1)
  /\ [][ /\ (\E body \in generateBodies : handleGenerateResolved(body)) => ~isGenerating'
         /\ (\E detail \in generateErrors : handleGenerateRejected(detail)) => ~isGenerating'
       ]_vars

\* two generations were asked for one after the other and the second was
\* refused: nothing is outstanding and isGenerating is false again
C27_Witness ==
  /\ genSent = 2 /\ genRequests = <<>> /\ ~isGenerating
  /\ notice = "Quota exceeded"

\* C28: every submission that passes validation clears the stored paper id;
\* so a stored id is the one the most recent submission's response returned,
\* and no id is stored while a generation is outstanding or after it failed.
C28_StoredIdIsOfLastSubmission ==
  /\ [](isGenerating => generatedPaperId = None)
  /\ [][ /\ (handleGenerate /\ ~selectionIncomplete) => generatedPaperId' = None
         /\ \A body \in generateBodies :
              handleGenerateResolved(body) =>
                generatedPaperId' = IF "paper_id" \in DOMAIN body
                                    THEN Some(body.paper_id) ELSE Some(body.id)
         /\ (\E detail \in generateErrors : handleGenerateRejected(detail)) =>
              generatedPaperId' = None
         /\ generatedPaperId' # generatedPaperId =>
              \/ handleGenerate /\ ~selectionIncomplete
              \/ \E body \in generateBodies : handleGenerateResolved(body)
       ]_vars

\* a second generation has been submitted after a successful one: the
\* success notice is still up and the first paper's id is gone
C28_Witness ==
  /\ isGenerating /\ genSent = 2
  /\ notice = "Question paper generated successfully"
  /\ generatedPaperId = None

====
